---- MODULE Spec2Model ----
(***************************************************************************)
(* The AI assistant of redash/handlers/ai_assistant.py: the tool           *)
(* dispatcher (_execute_tool and the three tools), the query-safety policy *)
(* (_tool_execute_query, _run_query) and the streaming agentic loop        *)
(* (AIAssistantChatResource.post.generate).                                *)
(*                                                                         *)
(* Representation.  A Python str that the code inspects character by      *)
(* character (query text, table name) is a sequence of one-character       *)
(* strings.  An optional value (a dict key that may be missing, a value    *)
(* that may be None) is a sequence of length 0 or 1.  A Python dict with   *)
(* a fixed set of possible keys is a record of such optional values.       *)
(***************************************************************************)
EXTENDS Integers, Sequences, FiniteSets, TLC

VARIABLES
    pc,                 \* position of generate(): start, request, streaming, final, dispatching, done, error
    anthropic_messages, \* the conversation list built at line 267 and extended at 347-354
    events,             \* every SSE event yielded so far, in order
    stream,             \* what is left of the model's event stream of the current turn
    final_message,      \* content blocks of the turn being streamed (stream.get_final_message())
    tool_calls,         \* the tool_use blocks of final_message still to dispatch (line 312, 329)
    tool_results,       \* the tool_result blocks collected in this cycle (line 328, 340)
    requests,           \* number of client.messages.stream(...) calls made
    runLog,             \* every query text handed to query_runner.run_query, in order
    dispatchLog,        \* every _execute_tool call of the loop: turn, id, name, input, result
    nInitial,           \* number of messages the client sent (len(messages), line 228)
    decisions,          \* the human's resolved decisions, keyed by the query text surfaced
    chat,               \* the request to AIAssistantChatResource.post and its HTTP response
    call,               \* the last direct call of _execute_tool (dispatcher specification)
    sync,               \* the last request to AIAssistantExecuteQueryResource.post and its response
    rendering,          \* the last schema rendered by format_schema_for_context and _tool_get_schema
    connection,         \* the client's side of the event stream: open, gone, failed (a write met the closed socket), closed
    org                 \* the organization's stored settings, the audit events and the last settings response

vars == <<pc, anthropic_messages, events, stream, final_message, tool_calls,
          tool_results, requests, runLog, dispatchLog, nInitial, decisions, chat,
          call, sync, rendering, connection, org>>

orchVars == <<pc, anthropic_messages, events, stream, final_message, tool_calls,
              tool_results, requests, runLog, dispatchLog, nInitial, decisions, chat>>

toolVars == <<call, sync, rendering, org>>

(***************************************************************************)
(* Optional values                                                         *)
(***************************************************************************)
None == << >>

Some(v) == << v >>

IsSome(o) == Len(o) = 1

\* dict.get(key, default)
GetOr(o, default) == IF IsSome(o) THEN o[1] ELSE default

(***************************************************************************)
(* Strings as character sequences                                          *)
(***************************************************************************)
LowerLetters ==
    <<"a","b","c","d","e","f","g","h","i","j","k","l","m",
      "n","o","p","q","r","s","t","u","v","w","x","y","z">>

UpperLetters ==
    <<"A","B","C","D","E","F","G","H","I","J","K","L","M",
      "N","O","P","Q","R","S","T","U","V","W","X","Y","Z">>

Digits == {"0","1","2","3","4","5","6","7","8","9"}

\* A non-ASCII letter (e with acute accent), which str.isalnum() counts as
\* alphanumeric and str.upper() maps to its capital.
EAcute == "e-acute"

CapitalEAcute == "E-ACUTE"

Range(s) == { s[i] : i \in DOMAIN s }

\* str.isspace() of one character
IsSpace(c) == c \in {" ", "\t", "\n"}

\* str.upper() of one character
UpperChar(c) ==
    IF \E i \in DOMAIN LowerLetters : LowerLetters[i] = c
    THEN UpperLetters[CHOOSE i \in DOMAIN LowerLetters : LowerLetters[i] = c]
    ELSE IF c = EAcute THEN CapitalEAcute ELSE c

\* str.upper()
Upper(s) == [ i \in DOMAIN s |-> UpperChar(s[i]) ]

\* str.isalnum() of one character
IsAlnumChar(c) ==
    c \in Range(LowerLetters) \cup Range(UpperLetters) \cup Digits
          \cup {EAcute, CapitalEAcute}

\* str.isalnum(): non-empty and every character alphanumeric
IsAlnum(s) == Len(s) > 0 /\ \A i \in DOMAIN s : IsAlnumChar(s[i])

\* str.replace(c, "")
RemoveChar(s, c) == SelectSeq(s, LAMBDA x : x # c)

\* str.startswith(p)
StartsWith(s, p) == Len(s) >= Len(p) /\ SubSeq(s, 1, Len(p)) = p

\* sub in s
Contains(s, sub) ==
    \E i \in 1..(Len(s) - Len(sub) + 1) : SubSeq(s, i, i + Len(sub) - 1) = sub

\* str.strip(): leading and trailing whitespace removed
Strip(s) ==
    IF \A i \in DOMAIN s : IsSpace(s[i]) THEN << >>
    ELSE LET first == CHOOSE i \in DOMAIN s :
                          ~IsSpace(s[i]) /\ \A j \in 1..(i - 1) : IsSpace(s[j])
             last  == CHOOSE i \in DOMAIN s :
                          ~IsSpace(s[i]) /\ \A j \in (i + 1)..Len(s) : IsSpace(s[j])
         IN  SubSeq(s, first, last)

KwSELECT == <<"S","E","L","E","C","T">>

KwLIMIT == <<"L","I","M","I","T">>

\* " LIMIT 100" (line 472)
SuffixLimit100 == <<" ","L","I","M","I","T"," ","1","0","0">>

\* "SELECT * FROM " (line 460)
PrefixSelectStarFrom == <<"S","E","L","E","C","T"," ","*"," ","F","R","O","M"," ">>

\* " LIMIT 5" (line 460)
SuffixLimit5 == <<" ","L","I","M","I","T"," ","5">>

(***************************************************************************)
(* Results of a tool: Python dicts, as records with the same keys          *)
(***************************************************************************)
ErrorResult(msg) == [error |-> msg]

DataResult(data) == [data |-> data]

\* An exception raised inside a tool that no except clause has seen yet
Raised(msg) == [raised |-> msg]

IsRaised(result) == "raised" \in DOMAIN result

\* A value of another type than the tool definitions ask for: the int 7 where
\* a str or a list is expected.
IntValue == << "<int 7>" >>

\* The row cap of _run_query (lines 490-491)
RowCap == 100

\* json_serializer (lines 16-22) on one cell value: dates become ISO strings,
\* decimals floats, JSON-native values stay, anything else raises TypeError.
JsonSerializable(cell) == cell \in {"plain", "date", "decimal"}

json_serializer(cell) ==
    CASE cell = "date"    -> "isoformat"
      [] cell = "decimal" -> "float"
      [] OTHER            -> cell

(***************************************************************************)
(* The data source: what query_runner.run_query does on one call is the    *)
(* environment's choice, an outcome record:                                *)
(*   kind "rows":    returns (data, None), data a dict with n rows (form   *)
(*                   "dict") or the JSON text of such a dict (form "json"),*)
(*   kind "badjson": returns (text, None), text a str that is not JSON,    *)
(*   kind "nodata":  returns (None, None),                                 *)
(*   kind "error":   returns (None, error message),                        *)
(*   kind "raise":   raises an exception.                                  *)
(***************************************************************************)
Rows(n, cell) == [ i \in 1..n |-> [id |-> i, val |-> cell] ]

RowsOutcome(n, cell) == [kind |-> "rows", n |-> n, cell |-> cell, form |-> "dict"]

JsonRowsOutcome(n) == [kind |-> "rows", n |-> n, cell |-> "plain", form |-> "json"]

BadJsonOutcome == [kind |-> "badjson", n |-> 0, cell |-> "plain", form |-> "json"]

NoDataOutcome == [kind |-> "nodata", n |-> 0, cell |-> "plain", form |-> "dict"]

ErrorOutcome == [kind |-> "error", n |-> 0, cell |-> "plain", form |-> "dict"]

RaiseOutcome == [kind |-> "raise", n |-> 0, cell |-> "plain", form |-> "dict"]

\* A str returned as data: the value it is the JSON text of, None when it is
\* not JSON at all.
JsonText(parsed) == [text_of |-> parsed]

\* isinstance(data, str)
IsStrData(data) == "text_of" \in DOMAIN data

\* The pair (data, error) that run_query returns when it does not raise
RunnerReturn(rq) ==
    CASE rq.kind = "error"   -> [data |-> None, error |-> Some("query runner error")]
      [] rq.kind = "nodata"  -> [data |-> None, error |-> None]
      [] rq.kind = "badjson" -> [data |-> Some(JsonText(None)), error |-> None]
      [] rq.form = "json"    ->
            [data |-> Some(JsonText(Some([rows |-> Rows(rq.n, rq.cell)]))), error |-> None]
      [] OTHER               -> [data |-> Some([rows |-> Rows(rq.n, rq.cell)]), error |-> None]

\* A dispatch: the value returned and the queries handed to run_query on the way.
Effect(result, sent) == [result |-> result, sent |-> sent]

\* Faulty variant: the cap keeps the last rows, not the first.
LimitResponseKeepingLast(data) ==
    IF Len(data.rows) > RowCap
    THEN [rows |-> SubSeq(data.rows, Len(data.rows) - RowCap + 1, Len(data.rows)),
          truncated |-> TRUE]
    ELSE data

\* "Limit response size" (lines 489-492)
LimitResponse(data) ==
    IF Len(data.rows) > RowCap
    THEN [rows |-> SubSeq(data.rows, 1, RowCap), truncated |-> TRUE]
    ELSE data

\* _run_query (lines 476-496): every exception of the body ends in {"error": str(e)}
RunQuery(query, rq) ==
    IF rq.kind = "raise"
    THEN Effect(ErrorResult("exception in run_query"), <<query>>)
    ELSE LET ret == RunnerReturn(rq)
         IN  CASE ret.error # None ->
                     Effect(ErrorResult(ret.error[1]), <<query>>)
               [] ret.data = None ->
                     Effect(ErrorResult("argument of type 'NoneType' is not iterable"),
                            <<query>>)
               [] IsStrData(ret.data[1]) /\ ret.data[1].text_of = None ->
                     Effect(ErrorResult("Expecting value: line 1 column 1 (char 0)"),
                            <<query>>)
               [] OTHER ->
                     LET data == IF IsStrData(ret.data[1])
                                 THEN ret.data[1].text_of[1]
                                 ELSE ret.data[1]
                     IN  Effect(DataResult(LimitResponse(data)), <<query>>)

\* The LIMIT injection of _tool_execute_query (lines 469-472)
EnforceLimit(query) ==
    LET query_upper == Upper(query)
    IN  IF ~Contains(query_upper, KwLIMIT) /\ StartsWith(query_upper, KwSELECT)
        THEN query \o SuffixLimit100
        ELSE query

\* _tool_execute_query (lines 463-474); tool_input is {"query": text}
ToolExecuteQuery(text, rq) ==
    LET query == Strip(text)
    IN  IF query = << >> THEN Effect(ErrorResult("query is required"), << >>)
        ELSE RunQuery(EnforceLimit(query), rq)

\* The sanitization of _tool_get_sample_data (line 457)
TableNameAccepted(table_name) ==
    IsAlnum(RemoveChar(RemoveChar(table_name, "_"), "."))

\* Faulty variant: the sample query carries no LIMIT.
SampleQueryUnlimited(table_name) == PrefixSelectStarFrom \o table_name

\* f"SELECT * FROM {table_name} LIMIT 5" (line 460)
SampleQuery(table_name) == PrefixSelectStarFrom \o table_name \o SuffixLimit5

\* _tool_get_sample_data (lines 450-461)
ToolGetSampleData(tool_input, rq) ==
    LET table_name == GetOr(tool_input.table_name, << >>)
    IN  IF table_name = << >> THEN Effect(ErrorResult("table_name is required"), << >>)
        ELSE IF table_name = IntValue
             THEN Effect(Raised("'int' object has no attribute 'replace'"), << >>)
        ELSE IF ~TableNameAccepted(table_name)
             THEN Effect(ErrorResult("Invalid table name"), << >>)
             ELSE RunQuery(SampleQuery(table_name), rq)

(***************************************************************************)
(* The synchronous execute endpoint: AIAssistantExecuteQueryResource.post  *)
(***************************************************************************)
\* abort(status, message=...): the request ends with an HTTP error response
HttpError(status, message) == [status |-> status, message |-> message]

\* A returned dict: HTTP 200 with the dict as JSON body
HttpOk(body) == [status |-> 200, body |-> body]

\* Faulty variant: the endpoint looks for SELECT and LIMIT without upper-casing.
PostEnforceLimitCaseSensitive(query) ==
    IF ~Contains(query, KwLIMIT) /\ StartsWith(query, KwSELECT)
    THEN query \o SuffixLimit100
    ELSE query

\* "Add safety limit if not present" (lines 186-189)
PostEnforceLimit(query) ==
    LET query_upper == Upper(query)
    IN  IF ~Contains(query_upper, KwLIMIT) /\ StartsWith(query_upper, KwSELECT)
        THEN query \o SuffixLimit100
        ELSE query

\* "Limit response size" (lines 202-205)
PostLimitResponse(data) ==
    IF Len(data.rows) > RowCap
    THEN [rows |-> SubSeq(data.rows, 1, RowCap), truncated |-> TRUE]
    ELSE data

\* The try statement of the endpoint (lines 191-210)
PostRunQuery(query, rq) ==
    IF rq.kind = "raise"
    THEN Effect(ErrorResult("exception in run_query"), <<query>>)
    ELSE LET ret == RunnerReturn(rq)
         IN  IF ret.error # None
             THEN Effect(ErrorResult(ret.error[1]), <<query>>)
             ELSE IF ret.data = None
             THEN Effect(ErrorResult("argument of type 'NoneType' is not iterable"),
                         <<query>>)
             ELSE IF IsStrData(ret.data[1]) /\ ret.data[1].text_of = None
             THEN Effect(ErrorResult("Expecting value: line 1 column 1 (char 0)"),
                         <<query>>)
             ELSE LET data == IF IsStrData(ret.data[1])
                              THEN ret.data[1].text_of[1]
                              ELSE ret.data[1]
                  IN  Effect(DataResult(PostLimitResponse(data)), <<query>>)

\* AIAssistantExecuteQueryResource.post (lines 161-210): the response, and the
\* queries handed to run_query.  access is what get_object_or_404 and
\* require_access make of the data source: "ok", "missing" or "denied".
ExecuteQueryPost(enabled, data_source_id, query, access, rq) ==
    IF ~enabled
    THEN [response |-> HttpError(403, "AI assistant is not enabled."), sent |-> << >>]
    ELSE IF query = Some(IntValue)
    THEN [response |-> HttpError(500, "Internal Server Error"), sent |-> << >>]
    ELSE IF data_source_id = None
    THEN [response |-> HttpError(400, "data_source_id is required."), sent |-> << >>]
    ELSE IF Strip(GetOr(query, << >>)) = << >>
    THEN [response |-> HttpError(400, "query is required."), sent |-> << >>]
    ELSE IF access = "missing"
    THEN [response |-> HttpError(404, "Not Found"), sent |-> << >>]
    ELSE IF access = "denied"
    THEN [response |-> HttpError(403, "Forbidden"), sent |-> << >>]
    ELSE LET effect == PostRunQuery(PostEnforceLimit(Strip(query[1])), rq)
         IN  [response |-> HttpOk(effect.result), sent |-> effect.sent]

(***************************************************************************)
(* The cached schema: a sequence of tables.  A table's columns are a       *)
(* mapping name -> type-info (shape "dict", an ordered sequence of items), *)
(* a list of plain names (shape "names") or a list of name/type records    *)
(* (shape "records"); the key may be missing (None).                       *)
(***************************************************************************)
\* The columns of a table as _tool_get_schema renders them (lines 424-441)
ToolColList(columns) ==
    IF columns = None THEN << >>
    ELSE LET c == columns[1]
         IN  CASE c.shape = "dict" ->
                     [ i \in DOMAIN c.cols |->
                         [name |-> c.cols[i].name, type |-> GetOr(c.cols[i].type, "unknown")] ]
               [] c.shape = "names" ->
                     [ i \in DOMAIN c.cols |-> [name |-> c.cols[i], type |-> "unknown"] ]
               [] OTHER ->
                     [ i \in DOMAIN c.cols |->
                         [name |-> GetOr(c.cols[i].name, "unknown"),
                          type |-> GetOr(c.cols[i].type, "unknown")] ]

\* Faulty variant: only columns given as a list are counted.
ColumnCountOfListsOnly(columns) ==
    IF columns = None \/ columns[1].shape = "dict" THEN 0 ELSE Len(columns[1].cols)

\* len(t.get("columns", [])) (line 415)
ColumnCount(columns) == IF columns = None THEN 0 ELSE Len(columns[1].cols)

\* _tool_get_schema (lines 407-448)
ToolGetSchema(tool_input, schema) ==
    LET requested_tables == GetOr(tool_input.tables, << >>)
    IN  IF requested_tables = << >>
        THEN [tables |-> [ i \in DOMAIN schema |->
                             [name |-> schema[i].name,
                              column_count |-> ColumnCount(schema[i].columns)] ]]
        ELSE IF requested_tables = IntValue
        THEN Raised("argument of type 'int' is not iterable")
        ELSE LET found == SelectSeq(schema, LAMBDA t : t.name \in Range(requested_tables))
             IN  [tables |-> [ i \in DOMAIN found |->
                                 [name |-> found[i].name,
                                  columns |-> ToolColList(found[i].columns)] ]]

\* sep.join(items)
RECURSIVE Join(_, _)
Join(items, sep) ==
    IF items = << >> THEN ""
    ELSE IF Len(items) = 1 THEN items[1]
    ELSE items[1] \o sep \o Join(Tail(items), sep)

\* The number of columns format_schema_for_context shows per table (lines 120-121)
ColumnCap == 10

\* The col_list of format_schema_for_context (lines 107-118)
FormatColList(columns) ==
    IF columns = None THEN << >>
    ELSE LET c == columns[1]
         IN  CASE c.shape = "dict" ->
                     [ i \in DOMAIN c.cols |->
                         c.cols[i].name \o " (" \o GetOr(c.cols[i].type, "?") \o ")" ]
               [] c.shape = "names" -> c.cols
               [] OTHER ->
                     [ i \in DOMAIN c.cols |->
                         GetOr(c.cols[i].name, "?") \o " (" \o GetOr(c.cols[i].type, "?") \o ")" ]

\* Faulty variant: the suffix is appended from ColumnCap columns on.
FormatTableLineSuffixAtCap(table) ==
    LET col_list == FormatColList(table.columns)
        shown == IF Len(col_list) > ColumnCap THEN SubSeq(col_list, 1, ColumnCap) ELSE col_list
        line == "- " \o table.name \o ": " \o Join(shown, ", ")
    IN  IF Len(col_list) >= ColumnCap
        THEN line \o " ... and " \o ToString(Len(col_list) - ColumnCap) \o " more columns"
        ELSE line

\* The line of one table (lines 120-122)
FormatTableLine(table) ==
    LET col_list == FormatColList(table.columns)
        shown == IF Len(col_list) > ColumnCap THEN SubSeq(col_list, 1, ColumnCap) ELSE col_list
        line == "- " \o table.name \o ": " \o Join(shown, ", ")
    IN  IF Len(col_list) > ColumnCap
        THEN line \o " ... and " \o ToString(Len(col_list) - ColumnCap) \o " more columns"
        ELSE line

\* format_schema_for_context (lines 97-124)
format_schema_for_context(schema) ==
    IF schema = << >> THEN "No schema available."
    ELSE Join([ i \in DOMAIN schema |-> FormatTableLine(schema[i]) ], "\n")

\* The three representations of a table's columns (lines 107-116, 425-439)
Shapes == {"dict", "names", "records"}

\* A table named name whose columns cols (name and optional type each) are
\* written in the representation shape; a list of plain names carries no types.
TableIn(name, cols, shape) ==
    [name |-> name,
     columns |-> Some([shape |-> shape,
                       cols |-> CASE shape = "dict" -> cols
                                  [] shape = "names" -> [ i \in DOMAIN cols |-> cols[i].name ]
                                  [] OTHER -> [ i \in DOMAIN cols |->
                                                  [name |-> Some(cols[i].name),
                                                   type |-> cols[i].type] ]])]

\* The representation can express the columns: plain names only untyped ones
CanDescribe(cols, shape) ==
    shape = "names" => \A i \in DOMAIN cols : cols[i].type = None

(***************************************************************************)
(* The approval gate of _execute_tool.  pending_approvals is None or a     *)
(* dict from query text to the approved text, None standing for a          *)
(* rejection (lines 387-393).                                              *)
(***************************************************************************)
\* Python truthiness of pending_approvals: neither None nor an empty dict
Truthy(pending_approvals) ==
    IsSome(pending_approvals) /\ DOMAIN pending_approvals[1] # {}

\* Faulty variant: a key matches when it equals the query text up to letter case.
GateLookupIgnoringCase(pending_approvals, query) ==
    IF Truthy(pending_approvals)
       /\ \E k \in DOMAIN pending_approvals[1] : Upper(k) = Upper(query)
    THEN Some(pending_approvals[1][CHOOSE k \in DOMAIN pending_approvals[1] :
                                       Upper(k) = Upper(query)])
    ELSE None

\* Faulty variant: a query without an entry counts as approved as it stands.
GateLookupDefaultApproved(pending_approvals, query) ==
    IF Truthy(pending_approvals) /\ query \in DOMAIN pending_approvals[1]
    THEN Some(pending_approvals[1][query])
    ELSE Some(Some(query))

\* Faulty variant: a rejection (None) is read as an approval of the text as requested.
GateLookupRejectionIgnored(pending_approvals, query) ==
    IF Truthy(pending_approvals) /\ query \in DOMAIN pending_approvals[1]
    THEN IF pending_approvals[1][query] = None
         THEN Some(Some(query))
         ELSE Some(pending_approvals[1][query])
    ELSE None

\* `pending_approvals and query in pending_approvals` and the lookup (lines 387-388):
\* None when there is no entry, otherwise Some(the entry).
GateLookup(pending_approvals, query) ==
    IF Truthy(pending_approvals) /\ query \in DOMAIN pending_approvals[1]
    THEN Some(pending_approvals[1][query])
    ELSE None

\* Faulty variant: the text the model requested is executed, not the approved one.
ApprovedInputFromModel(query, approved_query) == query

\* The tool input built at line 393: {"query": approved_query}
ApprovedInput(query, approved_query) == approved_query

\* The execute_query branch of _execute_tool (lines 384-400)
ExecuteQueryBranch(tool_input, pending_approvals, rq) ==
    LET query == Strip(GetOr(tool_input.query, << >>))
        entry == GateLookup(pending_approvals, query)
    IN  IF tool_input.query = Some(IntValue)
        THEN Effect(Raised("'int' object has no attribute 'strip'"), << >>)
        ELSE IF entry # None
        THEN IF entry[1] = None
             THEN Effect([rejected |-> TRUE,
                          message |-> "User rejected this query execution."], << >>)
             ELSE ToolExecuteQuery(ApprovedInput(query, entry[1][1]), rq)
        ELSE Effect([requires_approval |-> TRUE,
                     query |-> query,
                     purpose |-> GetOr(tool_input.purpose, "Verify query results")], << >>)

\* The body of the try statement of _execute_tool (lines 380-402)
TryExecuteTool(tool_name, tool_input, schema, pending_approvals, rq) ==
    CASE tool_name = "get_schema" -> Effect(ToolGetSchema(tool_input, schema), << >>)
      [] tool_name = "get_sample_data" -> ToolGetSampleData(tool_input, rq)
      [] tool_name = "execute_query" -> ExecuteQueryBranch(tool_input, pending_approvals, rq)
      [] OTHER -> Effect(ErrorResult("Unknown tool: " \o tool_name), << >>)

\* Faulty variant: there is no except clause; an exception leaves _execute_tool.
Uncaught(effect) == effect

\* `except Exception as e: return {"error": str(e)}` (lines 403-405)
Caught(effect) ==
    IF IsRaised(effect.result)
    THEN Effect(ErrorResult(effect.result.raised), effect.sent)
    ELSE effect

\* _execute_tool (lines 377-405)
ExecuteTool(tool_name, tool_input, schema, pending_approvals, rq) ==
    Caught(TryExecuteTool(tool_name, tool_input, schema, pending_approvals, rq))

(***************************************************************************)
(* Inputs                                                                  *)
(***************************************************************************)
\* "SELECT 1"
QSelect == <<"S","E","L","E","C","T"," ","1">>

\* " SELECT 1 " with surrounding whitespace
QSelectPadded == <<" ","S","E","L","E","C","T"," ","1"," ">>

\* "select 1"
QSelectLower == <<"s","e","l","e","c","t"," ","1">>

\* "SELECT 1 LIMIT 9"
QSelectLimited == <<"S","E","L","E","C","T"," ","1"," ","L","I","M","I","T"," ","9">>

\* "DROP t"
QDrop == <<"D","R","O","P"," ","t">>

\* "  "
QBlank == <<" ", " ">>

\* "SELECT limits": the letters LIMIT inside a longer word
QSelectLimits == <<"S","E","L","E","C","T"," ","l","i","m","i","t","s">>

\* "SELECTED": begins with the letters SELECT
QSelected == <<"S","E","L","E","C","T","E","D">>

QueryTexts ==
    {QSelect, QSelectPadded, QSelectLower, QSelectLimited, QSelectLimits, QSelected,
     QDrop, QBlank, << >>}

\* "orders"
TOrders == <<"o","r","d","e","r","s">>

\* "public.orders"
TPublicOrders == <<"p","u","b","l","i","c",".","o","r","d","e","r","s">>

\* "order_items"
TOrderItems == <<"o","r","d","e","r","_","i","t","e","m","s">>

\* "orders; DROP TABLE x"
TInjection == <<"o","r","d","e","r","s",";"," ","D","R","O","P"," ","T","A","B","L","E"," ","x">>

\* "orders--"
TComment == <<"o","r","d","e","r","s","-","-">>

\* "_." : only the characters the sanitization removes
TPunctuation == <<"_", ".">>

\* "caf" followed by e with acute accent
TAccented == <<"c", "a", "f", EAcute>>

TableNames == {TOrders, TPublicOrders, TOrderItems, TInjection, TComment,
               TPunctuation, TAccented, << >>, IntValue}

ToolNames == {"get_schema", "get_sample_data", "execute_query", "drop_table"}

NoInput == [query |-> None, purpose |-> None, table_name |-> None, tables |-> None]

QueryInput(q, p) == [NoInput EXCEPT !.query = q, !.purpose = p]

TableInput(t) == [NoInput EXCEPT !.table_name = t]

TablesInput(ts) == [NoInput EXCEPT !.tables = ts]

Purposes == {None, Some("check totals")}

TableLists ==
    {None, Some(<< >>), Some(<<"orders">>), Some(<<"users", "missing", "orders">>),
     Some(IntValue)}

ToolInputs ==
    { QueryInput(q, p) : q \in {None, Some(IntValue)} \cup {Some(t) : t \in QueryTexts},
                         p \in Purposes }
    \cup { TableInput(t) : t \in {None} \cup {Some(n) : n \in TableNames} }
    \cup { TablesInput(ts) : ts \in TableLists }

\* The cached schema of the data source: one table per column representation.
Schema ==
    << [name |-> "orders",
        columns |-> Some([shape |-> "dict",
                          cols |-> << [name |-> "id", type |-> Some("integer")],
                                      [name |-> "note", type |-> None] >>])],
       [name |-> "users",
        columns |-> Some([shape |-> "names", cols |-> << "id", "email" >>])],
       [name |-> "events",
        columns |-> Some([shape |-> "records",
                          cols |-> << [name |-> Some("id"), type |-> Some("integer")],
                                      [name |-> Some("at"), type |-> None] >>])],
       [name |-> "empty", columns |-> None] >>

RunnerOutcomes ==
    { RowsOutcome(0, "plain"), RowsOutcome(2, "date"), RowsOutcome(2, "bytes"),
      RowsOutcome(RowCap, "plain"), RowsOutcome(RowCap + 1, "plain"),
      JsonRowsOutcome(2), JsonRowsOutcome(RowCap + 1),
      BadJsonOutcome, NoDataOutcome, ErrorOutcome, RaiseOutcome }

\* Largest number of entries of a pending_approvals mapping
MaxApprovals == 2

\* Texts a human may approve: unchanged, edited, padded, blank
ApprovedTexts == {QSelect, QDrop, QSelectPadded, QBlank, QSelectLimits}

ApprovalKeys == {QSelect, QSelectPadded, QDrop}

\* Every pending_approvals argument: None, or a dict with up to MaxApprovals entries
ApprovalMaps ==
    {None} \cup
    { Some(m) : m \in UNION { [K -> {None} \cup {Some(t) : t \in ApprovedTexts}] :
                              K \in { S \in SUBSET ApprovalKeys : Cardinality(S) <= MaxApprovals } } }

(***************************************************************************)
(* The dispatcher on its own: direct calls of _execute_tool                *)
(***************************************************************************)
NoCall ==
    [made |-> FALSE, name |-> "", input |-> NoInput, approvals |-> None,
     rq |-> ErrorOutcome, effect |-> Effect(ErrorResult(""), << >>)]

\* No request has been made to the execute endpoint
NoSync ==
    [made |-> FALSE, enabled |-> FALSE, data_source_id |-> None, query |-> None,
     access |-> "ok", rq |-> ErrorOutcome, response |-> [status |-> 0], sent |-> << >>]

\* Nothing has been rendered
NoRendering ==
    [made |-> FALSE, cols |-> << >>, shape |-> "dict", schema |-> << >>, context |-> "",
     tool |-> [tables |-> << >>]]

\* No request has been made to the chat endpoint
\* JSON values of the settings: a string is the sequence of its characters,
\* a list the sequence of its items.
JsonNull == [kind |-> "null", v |-> << >>]

JsonStr(characters) == [kind |-> "str", v |-> characters]

JsonInt == [kind |-> "int", v |-> <<"7">>]

JsonList(items) == [kind |-> "list", v |-> items]

\* The settings of redash.settings.organization that the handlers iterate
\* (settings.py line 20)
SettingNames == {"ai_api_key", "date_format", "beacon_consent"}

\* An organization with nothing stored, of which no settings request has been made.
NoOrg ==
    [stored |-> [ k \in SettingNames |-> JsonNull ],
     defaults |-> [ k \in SettingNames |-> JsonNull ],
     domains |-> JsonList(<< >>),
     audit |-> << >>,
     made |-> "none",
     request |-> << >>,
     response |-> [status |-> 0]]

NoChat == [made |-> FALSE, req |-> << >>, response |-> [status |-> 0], system_prompt |-> ""]

\* Nothing is in progress: the dispatcher and the endpoint keep no state
\* between calls.
Idle == ~call.made /\ ~sync.made /\ ~rendering.made

\* One call of _execute_tool(tool_name, tool_input, data_source, schema, pending_approvals)
CallExecuteTool ==
    /\ Idle
    /\ \E name \in ToolNames, input \in ToolInputs, pa \in ApprovalMaps, rq \in RunnerOutcomes :
          call' = [made |-> TRUE, name |-> name, input |-> input, approvals |-> pa,
                   rq |-> rq, effect |-> ExecuteTool(name, input, Schema, pa, rq)]
    /\ UNCHANGED <<orchVars, sync, rendering, connection, org>>

ToolInit ==
    /\ call = NoCall
    /\ sync = NoSync
    /\ rendering = NoRendering
    /\ chat = NoChat
    /\ pc = "post"
    /\ anthropic_messages = << >>
    /\ events = << >>
    /\ stream = << >>
    /\ final_message = << >>
    /\ tool_calls = << >>
    /\ tool_results = << >>
    /\ requests = 0
    /\ runLog = << >>
    /\ dispatchLog = << >>
    /\ nInitial = 0
    /\ decisions = << >>
    /\ connection = "open"
    /\ org = NoOrg

ColumnNames == <<"id", "email", "note", "c4", "c5", "c6", "c7", "c8", "c9", "c10", "c11">>

ColumnTypes == {None, Some("integer"), Some("text")}

\* The columns of the tables rendered: none, one or two columns of every
\* typing, and as many columns as the cap and one more, untyped or typed
ColumnLists ==
    { << >> }
    \cup { << [name |-> "id", type |-> t] >> : t \in ColumnTypes }
    \cup { << [name |-> "id", type |-> t], [name |-> "email", type |-> u] >> :
             t \in ColumnTypes, u \in ColumnTypes }
    \cup { [ i \in 1..n |-> [name |-> ColumnNames[i], type |-> t] ] :
             n \in {ColumnCap, ColumnCap + 1}, t \in {None, Some("integer")} }

\* A schema is rendered for the system prompt and by get_schema: no table at
\* all, or the table t alone or after the tables of Schema
RenderSchema ==
    /\ Idle
    /\ \/ \E cols \in ColumnLists, shape \in Shapes, others \in {<< >>, Schema} :
             /\ CanDescribe(cols, shape)
             /\ LET schema == others \o << TableIn("t", cols, shape) >>
                IN  rendering' =
                        [made |-> TRUE, cols |-> cols, shape |-> shape, schema |-> schema,
                         context |-> format_schema_for_context(schema),
                         tool |-> ToolGetSchema(TablesInput(Some(<<"t">>)), schema)]
       \/ rendering' =
             [made |-> TRUE, cols |-> << >>, shape |-> "dict", schema |-> << >>,
              context |-> format_schema_for_context(<< >>),
              tool |-> ToolGetSchema(TablesInput(Some(<<"t">>)), << >>)]
    /\ UNCHANGED <<orchVars, call, sync, connection, org>>

\* Bodies of requests to the execute endpoint: the query may be missing or ill-typed
SyncQueries == {None, Some(IntValue)} \cup {Some(t) : t \in QueryTexts}

\* One request to AIAssistantExecuteQueryResource.post
PostExecuteQuery ==
    /\ Idle
    /\ \E enabled \in BOOLEAN, data_source_id \in {None, Some(1)}, query \in SyncQueries,
          access \in {"ok", "missing", "denied"}, rq \in RunnerOutcomes :
          LET out == ExecuteQueryPost(enabled, data_source_id, query, access, rq)
          IN  sync' = [made |-> TRUE, enabled |-> enabled, data_source_id |-> data_source_id,
                       query |-> query, access |-> access, rq |-> rq,
                       response |-> out.response, sent |-> out.sent]
    /\ UNCHANGED <<orchVars, call, rendering, connection, org>>

\* The call has returned; the dispatcher keeps no state between calls.
ReturnFromTool ==
    /\ ~Idle
    /\ call' = NoCall
    /\ sync' = NoSync
    /\ rendering' = NoRendering
    /\ UNCHANGED <<orchVars, connection, org>>

ToolNext == CallExecuteTool \/ PostExecuteQuery \/ RenderSchema \/ ReturnFromTool

ToolSpec == ToolInit /\ [][ToolNext]_vars

(***************************************************************************)
(* The streaming agentic loop: AIAssistantChatResource.post.generate       *)
(***************************************************************************)
\* Largest number of model requests of one exchange that is explored
MaxTurns == 2

\* json.dumps(..., default=json_serializer) of a tool result (lines 94, 343):
\* whether it succeeds, and the encoded value.
\* Faulty variant: an {error} result is taken for a failure of the exchange.
EncodableUnlessError(result) ==
    /\ "error" \notin DOMAIN result
    /\ "data" \in DOMAIN result =>
          \A i \in DOMAIN result.data.rows : JsonSerializable(result.data.rows[i].val)

Encodable(result) ==
    "data" \in DOMAIN result =>
        \A i \in DOMAIN result.data.rows : JsonSerializable(result.data.rows[i].val)

JsonEncode(result) ==
    IF "data" \in DOMAIN result
    THEN [result EXCEPT !.data.rows =
             [ i \in DOMAIN result.data.rows |->
                 [result.data.rows[i] EXCEPT !.val = json_serializer(@)] ]]
    ELSE result

\* create_sse_event (lines 92-94): the event's name and its JSON payload
create_sse_event(event_type, data) == [event |-> event_type, data |-> data]

\* The except clauses of generate (lines 356-364), by the exception raised
ErrorMessage(kind) ==
    CASE kind = "auth"       -> "Invalid API key."
      [] kind = "rate_limit" -> "Rate limit exceeded. Please try again later."
      [] kind = "api"        -> "API error: ..."
      [] OTHER               -> "Error: ..."

\* Content blocks of a model turn
TextBlock(chunks) == [type |-> "text", text |-> chunks]

ToolUseBlock(id, name, input) == [type |-> "tool_use", id |-> id, name |-> name, input |-> input]

ToolResultBlock(id, content) == [type |-> "tool_result", tool_use_id |-> id, content |-> content]

\* The id of the k-th tool call of turn n: unique within the conversation
ToolUseId(n, k) == 10 * n + k

\* The turns the model may answer with, for request number n
TurnContents(n) ==
    { << >>,
      << TextBlock(<<"Hel", "lo">>) >>,
      << TextBlock(<<"Looking">>),
         ToolUseBlock(ToolUseId(n, 1), "get_schema", TablesInput(Some(<< >>))),
         ToolUseBlock(ToolUseId(n, 2), "get_sample_data", TableInput(Some(TOrders))) >>,
      << ToolUseBlock(ToolUseId(n, 1), "execute_query", QueryInput(Some(QSelectPadded), None)) >>,
      << ToolUseBlock(ToolUseId(n, 1), "get_sample_data", TableInput(Some(IntValue))),
         TextBlock(<<"and">>),
         ToolUseBlock(ToolUseId(n, 2), "execute_query", QueryInput(Some(QDrop), Some("cleanup"))),
         ToolUseBlock(ToolUseId(n, 3), "drop_table", NoInput) >> }

\* The stream events the SDK delivers for one content block
BlockEvents(b) ==
    IF b.type = "text"
    THEN << [type |-> "content_block_start", block |-> b] >>
         \o [ i \in DOMAIN b.text |-> [type |-> "content_block_delta", text |-> Some(b.text[i])] ]
         \o << [type |-> "content_block_stop"] >>
    ELSE << [type |-> "content_block_start", block |-> b],
            [type |-> "content_block_delta", text |-> None],
            [type |-> "content_block_stop"] >>

RECURSIVE ContentEvents(_)
ContentEvents(content) ==
    IF content = << >> THEN << >>
    ELSE BlockEvents(Head(content)) \o ContentEvents(Tail(content))

\* The event stream of a whole turn
StreamOf(content) ==
    << [type |-> "message_start"] >> \o ContentEvents(content) \o << [type |-> "message_stop"] >>

\* Faulty variant: the start of a tool_use block is not forwarded.
EventsForTextOnly(e) ==
    IF e.type = "content_block_delta" /\ e.text # None
    THEN << create_sse_event("text_delta", [text |-> e.text[1]]) >>
    ELSE << >>

\* The SSE events generate yields for one stream event (lines 288-306)
EventsFor(e) ==
    CASE e.type = "content_block_start" /\ e.block.type = "tool_use" ->
            << create_sse_event("tool_start", [tool |-> e.block.name, id |-> e.block.id]) >>
      [] e.type = "content_block_delta" /\ e.text # None ->
            << create_sse_event("text_delta", [text |-> e.text[1]]) >>
      [] OTHER -> << >>

\* The tool_use blocks of the final message (lines 312-315)
ToolCallsOf(content) == SelectSeq(content, LAMBDA b : b.type = "tool_use")

\* Messages as the client may send them: role and content may be missing
ClientMessageLists ==
    { << [role |-> Some("user"), content |-> Some(<< TextBlock(<<"hi">>) >>)] >>,
      << [role |-> Some("user"), content |-> Some(<< TextBlock(<<"hi">>) >>)],
         [role |-> Some("assistant"), content |-> Some(<< TextBlock(<<"hello">>) >>)],
         [role |-> Some("user"),
          content |-> Some(<< ToolResultBlock(99, [json |-> ErrorResult("stale")]) >>)] >>,
      << [role |-> Some("user"), content |-> None] >> }

\* Faulty variant: after the error event the loop is entered again (a retry).
FailThenRetry(kind) ==
    /\ events' = Append(events, create_sse_event("error", [message |-> ErrorMessage(kind)]))
    /\ pc' = "request"

\* Every yield of generate() is written to the client by the server that
\* iterates the response (stream_with_context, lines 366-375).  The generator
\* itself never looks at the connection: a client that has gone is noticed
\* only when an event is written to it.
Written ==
    connection' = IF connection = "gone" /\ events' # events THEN "failed" ELSE connection

\* An exception reaches one of the except clauses: one error event, and the
\* generator ends (lines 356-364).
Fail(kind) ==
    /\ events' = Append(events, create_sse_event("error", [message |-> ErrorMessage(kind)]))
    /\ pc' = "error"

\* Requests to the chat endpoint: the AI settings of the organization, the
\* body (data_source_id and messages may be missing), what get_object_or_404
\* and require_access make of the data source, and its cached schema (empty
\* when there is none).
ChatRequests ==
    [ enabled : BOOLEAN,
      api_key : {"", "sk-ant-key"},
      data_source_id : {None, Some(1)},
      messages : {None, Some(<< >>)} \cup {Some(m) : m \in ClientMessageLists},
      access : {"ok", "missing", "denied"},
      schema : {<< >>, Schema} ]

\* The response that carries the event stream (lines 366-375)
StreamingResponse == [status |-> 200, mimetype |-> "text/event-stream"]

\* Faulty variant: the cached schema is not looked at.
ChatAbortIgnoringSchema(req) ==
    IF ~req.enabled
    THEN Some(HttpError(403, "AI assistant is not enabled."))
    ELSE IF req.api_key = ""
    THEN Some(HttpError(503, "AI assistant is not configured. Please set up the API key."))
    ELSE IF req.data_source_id = None
    THEN Some(HttpError(400, "data_source_id is required."))
    ELSE IF GetOr(req.messages, << >>) = << >>
    THEN Some(HttpError(400, "messages is required."))
    ELSE IF req.access = "missing"
    THEN Some(HttpError(404, "Not Found"))
    ELSE IF req.access = "denied"
    THEN Some(HttpError(403, "Forbidden"))
    ELSE None

\* The checks of AIAssistantChatResource.post before the generator exists
\* (lines 218-247): the abort response of the first check that fails, or None.
ChatAbort(req) ==
    IF ~req.enabled
    THEN Some(HttpError(403, "AI assistant is not enabled."))
    ELSE IF req.api_key = ""
    THEN Some(HttpError(503, "AI assistant is not configured. Please set up the API key."))
    ELSE IF req.data_source_id = None
    THEN Some(HttpError(400, "data_source_id is required."))
    ELSE IF GetOr(req.messages, << >>) = << >>
    THEN Some(HttpError(400, "messages is required."))
    ELSE IF req.access = "missing"
    THEN Some(HttpError(404, "Not Found"))
    ELSE IF req.access = "denied"
    THEN Some(HttpError(403, "Forbidden"))
    ELSE IF req.schema = << >>
    THEN Some(HttpError(400, "Schema is not available. Please refresh the schema first."))
    ELSE None

Init ==
    /\ pc = "post"
    /\ anthropic_messages = << >>
    /\ events = << >>
    /\ stream = << >>
    /\ final_message = << >>
    /\ tool_calls = << >>
    /\ tool_results = << >>
    /\ requests = 0
    /\ runLog = << >>
    /\ dispatchLog = << >>
    /\ nInitial = 0
    /\ decisions = << >>
    /\ chat = NoChat
    /\ call = NoCall
    /\ sync = NoSync
    /\ rendering = NoRendering
    /\ connection = "open"
    /\ org = NoOrg

\* AIAssistantChatResource.post up to the response (lines 216-254, 366-375):
\* a failing check aborts the request; otherwise the system prompt is built
\* and the streaming response is returned, its generator not yet started.
Post ==
    /\ pc = "post"
    /\ \E req \in ChatRequests :
          LET failure == ChatAbort(req)
          IN  IF failure # None
              THEN /\ chat' = [made |-> TRUE, req |-> req, response |-> failure[1],
                               system_prompt |-> ""]
                   /\ pc' = "aborted"
              ELSE /\ chat' = [made |-> TRUE, req |-> req, response |-> StreamingResponse,
                               system_prompt |-> format_schema_for_context(req.schema)]
                   /\ pc' = "start"
    /\ UNCHANGED <<anthropic_messages, events, stream, final_message, tool_calls,
                   tool_results, requests, runLog, dispatchLog, nInitial, decisions,
                   toolVars>>
    /\ Written

\* Lines 256-272: the import, the client, the conversion of the client's messages
Start ==
    /\ pc = "start"
    /\ \/ /\ events' = Append(events, create_sse_event("error",
                                  [message |-> "anthropic package is not installed."]))
          /\ pc' = "error"
          /\ UNCHANGED <<anthropic_messages, nInitial>>
       \/ LET messages == chat.req.messages[1]
          IN IF \E i \in DOMAIN messages : messages[i].role = None \/ messages[i].content = None
             THEN Fail("other") /\ UNCHANGED <<anthropic_messages, nInitial>>
             ELSE /\ anthropic_messages' =
                        [ i \in DOMAIN messages |->
                            [role |-> messages[i].role[1], content |-> messages[i].content[1]] ]
                  /\ nInitial' = Len(messages)
                  /\ pc' = "request"
                  /\ UNCHANGED events
    /\ UNCHANGED <<stream, final_message, tool_calls, tool_results, requests, runLog,
                   dispatchLog, decisions, chat, toolVars>>
    /\ Written

\* Lines 275-285: one client.messages.stream(...) request
ModelRequest ==
    /\ pc = "request"
    /\ requests < MaxTurns
    /\ requests' = requests + 1
    /\ \/ /\ \E kind \in {"auth", "rate_limit", "api", "other"} : Fail(kind)
          /\ UNCHANGED <<stream, final_message>>
       \/ /\ \E content \in TurnContents(requests + 1) :
                /\ stream' = StreamOf(content)
                /\ final_message' = content
          /\ pc' = "streaming"
          /\ UNCHANGED events
    /\ UNCHANGED <<anthropic_messages, tool_calls, tool_results, runLog, dispatchLog,
                   nInitial, decisions, chat, toolVars>>
    /\ Written

\* Lines 287-306: one event of the model's stream
StreamEvent ==
    /\ pc = "streaming"
    /\ stream # << >>
    /\ \/ /\ events' = events \o EventsFor(Head(stream))
          /\ stream' = Tail(stream)
          /\ UNCHANGED pc
       \/ /\ \E kind \in {"api", "other"} : Fail(kind)
          /\ UNCHANGED stream
    /\ UNCHANGED <<anthropic_messages, final_message, tool_calls, tool_results, requests,
                   runLog, dispatchLog, nInitial, decisions, chat, toolVars>>
    /\ Written

\* Faulty variant: the `break` after `done` is missing; the while loop goes round again.
AfterDoneWithoutBreak == "request"

\* The `break` of line 325 leaves the while loop, and the generator returns.
AfterDone == "done"

\* Lines 308-328: the final message, its tool calls, and `done` when there are none
EvaluateTurn ==
    /\ pc = "streaming"
    /\ stream = << >>
    /\ \/ /\ Fail("api")
          /\ UNCHANGED <<tool_calls, tool_results>>
       \/ /\ ToolCallsOf(final_message) = << >>
          /\ events' = Append(events, create_sse_event("done", [usage |-> [turn |-> requests]]))
          /\ pc' = AfterDone
          /\ UNCHANGED <<tool_calls, tool_results>>
       \/ /\ ToolCallsOf(final_message) # << >>
          /\ tool_calls' = ToolCallsOf(final_message)
          /\ tool_results' = << >>
          /\ pc' = "dispatching"
          /\ UNCHANGED events
    /\ UNCHANGED <<anthropic_messages, stream, final_message, requests, runLog,
                   dispatchLog, nInitial, decisions, chat, toolVars>>
    /\ Written

\* The arguments of the call at lines 330-335: no pending_approvals is passed
DispatchApprovals == None

\* Faulty variant: the tool calls are taken from the last to the first.
NextToolCallReversed(calls, results) == calls[Len(calls) - Len(results)]

\* `for tool_call in tool_calls` (line 329): the call after those already answered
NextToolCall(calls, results) == calls[Len(results) + 1]

\* Lines 329-344: one iteration of the loop over tool_calls
DispatchTool ==
    /\ pc = "dispatching"
    /\ Len(tool_results) < Len(tool_calls)
    /\ LET tool_call == NextToolCall(tool_calls, tool_results)
       IN  \E rq \in RunnerOutcomes :
             LET eff == ExecuteTool(tool_call.name, tool_call.input, chat.req.schema,
                                    DispatchApprovals, rq)
             IN  /\ runLog' = runLog \o eff.sent
                 /\ dispatchLog' = Append(dispatchLog,
                        [turn |-> requests, id |-> tool_call.id, name |-> tool_call.name,
                         input |-> tool_call.input, result |-> eff.result,
                         sent |-> eff.sent, decided |-> decisions])
                 /\ IF Encodable(eff.result)
                    THEN /\ events' = Append(events, create_sse_event("tool_result",
                                [tool |-> tool_call.name, result |-> JsonEncode(eff.result)]))
                         /\ tool_results' = Append(tool_results,
                                ToolResultBlock(tool_call.id, [json |-> JsonEncode(eff.result)]))
                         /\ UNCHANGED pc
                    ELSE Fail("other") /\ UNCHANGED tool_results
    /\ UNCHANGED <<anthropic_messages, stream, final_message, tool_calls, requests,
                   nInitial, decisions, chat, toolVars>>
    /\ Written

\* Faulty variant: the tool results are appended before the assistant's turn.
AppendedMessagesResultsFirst(content, results) ==
    << [role |-> "user", content |-> results],
       [role |-> "assistant", content |-> content] >>

\* Faulty variant: the assistant's turn is appended without the tool results.
AppendedMessagesWithoutResults(content, results) ==
    << [role |-> "assistant", content |-> content] >>

\* The two appends of lines 347-354, in the order the code makes them
AppendedMessages(content, results) ==
    << [role |-> "assistant", content |-> content],
       [role |-> "user", content |-> results] >>

\* Faulty variant: the generator returns after one tool cycle.
AfterCycleReturns == "returned"

\* `while True` (line 275): after the appends the loop makes the next request.
AfterCycle == "request"

\* Lines 346-354: the cycle is complete; back to the top of the while loop
AppendMessages ==
    /\ pc = "dispatching"
    /\ Len(tool_results) = Len(tool_calls)
    /\ anthropic_messages' = anthropic_messages \o AppendedMessages(final_message, tool_results)
    /\ pc' = AfterCycle
    /\ UNCHANGED <<events, stream, final_message, tool_calls, tool_results, requests,
                   runLog, dispatchLog, nInitial, decisions, chat, toolVars>>
    /\ Written

\* The query texts surfaced to the client for approval so far
Surfaced ==
    { events[i].data.result.query :
        i \in { j \in DOMAIN events :
                  /\ events[j].event = "tool_result"
                  /\ "requires_approval" \in DOMAIN events[j].data.result } }

\* Out of band, the human resolves a surfaced query: rejects it (None), approves
\* it as it stands or approves an edited text.
HumanDecides ==
    /\ pc \in {"request", "streaming", "dispatching"}
    /\ \E q \in Surfaced \ DOMAIN decisions :
          \E d \in {None, Some(q), Some(QSelectLimited)} :
              decisions' = [ k \in DOMAIN decisions \cup {q} |->
                               IF k = q THEN d ELSE decisions[k] ]
    /\ UNCHANGED <<pc, anthropic_messages, events, stream, final_message, tool_calls,
                   tool_results, requests, runLog, dispatchLog, nInitial, chat, toolVars>>
    /\ Written

Next ==
    \/ Post
    \/ Start
    \/ ModelRequest
    \/ StreamEvent
    \/ EvaluateTurn
    \/ DispatchTool
    \/ AppendMessages
    \/ HumanDecides

Spec == Init /\ [][Next]_vars

\* The exchange while the client stays connected: the server keeps iterating
\* the generator (stream_with_context, line 367), the model's stream delivers
\* its events and every tool call returns, so each step of generate() that
\* can be taken is taken.  The human's decisions are under no obligation.
Fairness ==
    /\ WF_vars(Start)
    /\ WF_vars(ModelRequest)
    /\ WF_vars(StreamEvent)
    /\ WF_vars(EvaluateTurn)
    /\ WF_vars(DispatchTool)
    /\ WF_vars(AppendMessages)

FairSpec == Init /\ [][Next]_vars /\ Fairness

\* The client goes away while the response is being streamed.  Nothing in
\* generate() is told: there is no check of the connection in lines 256-364.
ClientDisconnects ==
    /\ connection = "open"
    /\ pc \in {"start", "request", "streaming", "dispatching"}
    /\ connection' = "gone"
    /\ UNCHANGED <<orchVars, toolVars>>

\* A write to the closed socket failed: the server closes the generator, which
\* is suspended at a yield.  GeneratorExit is not an Exception, so no except
\* clause of lines 356-364 runs; leaving the `with` block of line 277
\* releases the model's stream.  A generator that had already returned is
\* left as it is.
CloseGenerator ==
    /\ connection = "failed"
    /\ connection' = "closed"
    /\ pc' = IF pc \in {"done", "error"} THEN pc ELSE "closed"
    /\ stream' = << >>
    /\ UNCHANGED <<anthropic_messages, events, final_message, tool_calls, tool_results,
                   requests, runLog, dispatchLog, nInitial, decisions, chat, toolVars>>

\* The server iterates the generator until a write has failed.
Iterated == connection \in {"open", "gone"}

CancelNext ==
    \/ ClientDisconnects
    \/ CloseGenerator
    \/ Iterated /\ Post
    \/ Iterated /\ Start
    \/ Iterated /\ ModelRequest
    \/ Iterated /\ StreamEvent
    \/ Iterated /\ EvaluateTurn
    \/ Iterated /\ DispatchTool
    \/ Iterated /\ AppendMessages
    \/ Iterated /\ HumanDecides

\* The exchange with a client that may disconnect
CancelSpec == Init /\ [][CancelNext]_vars

(***************************************************************************)
(* The organization settings handlers (settings.py).  Requests are those   *)
(* of an administrator: require_admin lets no other through.               *)
(***************************************************************************)

\* API keys: shorter than 16 characters, of exactly 16 and of 20 characters,
\* and one with a space on each side
KeyShort == <<"s", "k", "-", "1">>

Key16 == <<"s", "k", "-", "a", "n", "t", "-", "0", "1", "2", "3", "4", "5", "6", "7", "8">>

Key20 == <<"s", "k", "-", "a", "n", "t", "-", "a", "p", "i", "0", "3", "-", "a", "b", "c", "d", "e", "f", "g">>

KeyPadded == <<" ", "s", "k", "-", "2", " ">>

\* Python truthiness of a JSON value
JsonTruthy(x) ==
    CASE x.kind = "null" -> FALSE
      [] x.kind = "int"  -> TRUE
      [] OTHER           -> x.v # << >>

WhitespaceChars == {" ", "\t", "\n"}

\* str.strip()
RECURSIVE StripLeft(_)
StripLeft(t) ==
    IF t # << >> /\ Head(t) \in WhitespaceChars THEN StripLeft(Tail(t)) ELSE t

RECURSIVE StripRight(_)
StripRight(t) ==
    IF t # << >> /\ t[Len(t)] \in WhitespaceChars
    THEN StripRight(SubSeq(t, 1, Len(t) - 1)) ELSE t

StripChars(t) == StripRight(StripLeft(t))

Stars(n) == [ i \in 1..n |-> "*" ]

\* mask_api_key (lines 9-13), of a string key
mask_api_key(key) ==
    IF key = << >> \/ Len(key) < 16
    THEN Stars(Len(key))
    ELSE SubSeq(key, 1, 8) \o Stars(Len(key) - 12) \o SubSeq(key, Len(key) - 3, Len(key))

\* get_settings_with_defaults (lines 16-37): stored is org.settings["settings"],
\* a setting that is not stored reading as None
get_settings_with_defaults(defaults, stored, domains, mask_secrets) ==
    LET present == { k \in DOMAIN defaults : ~(stored[k] = JsonNull /\ defaults[k] = JsonNull) }
        settings == [ k \in present |-> IF stored[k] = JsonNull THEN defaults[k] ELSE stored[k] ]
        masking == /\ mask_secrets
                   /\ "ai_api_key" \in present
                   /\ JsonTruthy(settings["ai_api_key"])
        names == present \cup {"auth_google_apps_domains"}
                     \cup (IF masking THEN {"ai_api_key_masked"} ELSE {})
    IN  [ k \in names |->
            CASE k = "auth_google_apps_domains" -> domains
              [] k = "ai_api_key_masked" -> JsonStr(mask_api_key(settings["ai_api_key"].v))
              [] k = "ai_api_key" /\ masking -> JsonStr(<< >>)
              [] OTHER -> settings[k] ]

\* OrganizationSettings.get (lines 41-45)
SettingsGet ==
    /\ org' = [org EXCEPT !.made = "get",
                          !.request = << >>,
                          !.response = [status |-> 200,
                                        settings |-> get_settings_with_defaults(
                                            org.defaults, org.stored, org.domains, TRUE)]]
    /\ UNCHANGED <<orchVars, call, sync, rendering, connection>>

\* Faulty variant: any non-empty value counts as a new key.
NewKeyGivenUnstripped(v) == JsonTruthy(v)

\* `if v and v.strip()` (line 61), for a value that can be stripped
NewKeyGiven(v) == JsonTruthy(v) /\ StripChars(v.v) # << >>

\* The value has no strip(): line 61 raises AttributeError
CannotStrip(v) == JsonTruthy(v) /\ v.kind # "str"

MaskedMarker == JsonStr(<<"[", "M", "A", "S", "K", "E", "D", "]">>)

\* The bodies posted: each of the three settings present or not
KeyValues ==
    {None, Some(JsonNull), Some(JsonInt), Some(JsonStr(<< >>)), Some(JsonStr(<<" ", " ">>)),
     Some(JsonStr(KeyShort)), Some(JsonStr(Key16)), Some(JsonStr(Key20)), Some(JsonStr(KeyPadded))}

DateFormats == {None, Some(JsonStr(<<"Y", "Y">>))}

DomainLists == {None, Some(JsonList(<<"a.example">>))}

NewValues ==
    { LET given == [ai_api_key |-> a, date_format |-> d, auth_google_apps_domains |-> g]
      IN  [ k \in { n \in DOMAIN given : given[n] # None } |-> given[k][1] ] :
        a \in KeyValues, d \in DateFormats, g \in DomainLists }

\* settings.py lines 47-70: the values stored after the loop over new_values
StoredAfter(stored, new_values) ==
    [ k \in DOMAIN stored |->
        IF k \in DOMAIN new_values /\ (k = "ai_api_key" => NewKeyGiven(new_values[k]))
        THEN new_values[k]
        ELSE stored[k] ]

\* previous_values as built by lines 55-67
PreviousValues(o, new_values) ==
    LET recorded == { k \in DOMAIN new_values :
                        k = "ai_api_key" => NewKeyGiven(new_values[k]) }
    IN  [ k \in recorded |->
            CASE k = "auth_google_apps_domains" -> o.domains
              [] k = "ai_api_key" -> MaskedMarker
              [] OTHER -> o.stored[k] ]

\* The number of posts explored
MaxPosts == 2

\* OrganizationSettings.post (lines 47-84)
SettingsPost ==
    /\ Len(org.audit) < MaxPosts
    /\ \E new_values \in NewValues :
          IF "ai_api_key" \in DOMAIN new_values /\ CannotStrip(new_values["ai_api_key"])
          THEN org' = [org EXCEPT !.made = "post", !.request = new_values,
                                  !.response = [status |-> 500]]
          ELSE LET stored == StoredAfter(org.stored, new_values)
                   domains == IF "auth_google_apps_domains" \in DOMAIN new_values
                              THEN new_values["auth_google_apps_domains"]
                              ELSE org.domains
               IN  org' = [org EXCEPT
                             !.made = "post",
                             !.request = new_values,
                             !.stored = stored,
                             !.domains = domains,
                             !.audit = Append(@, [action |-> "edit",
                                                  object_type |-> "settings",
                                                  new_values |-> new_values,
                                                  previous_values |-> PreviousValues(org, new_values)]),
                             !.response = [status |-> 200,
                                           settings |-> get_settings_with_defaults(
                                               org.defaults, stored, domains, TRUE)]]
    /\ UNCHANGED <<orchVars, call, sync, rendering, connection>>

\* The organizations the requests meet: with or without a key stored, the
\* default of ai_api_key unset or empty
SettingsInit ==
    /\ \E key \in {JsonNull, JsonStr(KeyShort), JsonStr(Key20)}, default \in {JsonNull, JsonStr(<< >>)} :
          org = [NoOrg EXCEPT
                   !.stored = [ k \in SettingNames |-> IF k = "ai_api_key" THEN key ELSE JsonNull ],
                   !.defaults = [ k \in SettingNames |->
                                    CASE k = "ai_api_key" -> default
                                      [] k = "date_format" -> JsonStr(<<"D", "D">>)
                                      [] OTHER -> JsonNull ]]
    /\ connection = "open"
    /\ call = NoCall
    /\ sync = NoSync
    /\ rendering = NoRendering
    /\ chat = NoChat
    /\ pc = "post"
    /\ anthropic_messages = << >>
    /\ events = << >>
    /\ stream = << >>
    /\ final_message = << >>
    /\ tool_calls = << >>
    /\ tool_results = << >>
    /\ requests = 0
    /\ runLog = << >>
    /\ dispatchLog = << >>
    /\ nInitial = 0
    /\ decisions = << >>

SettingsNext == SettingsGet \/ SettingsPost

SettingsSpec == SettingsInit /\ [][SettingsNext]_vars

(***************************************************************************)
(* Properties of the dispatcher (specification ToolSpec)                   *)
(***************************************************************************)
\* The trimmed query text of the call under inspection
CallQuery == Strip(GetOr(call.input.query, << >>))

\* The query of the call is a text (or missing, which reads as the empty text)
CallQueryIsText == call.input.query # Some(IntValue)

\* The call is an execute_query whose trimmed text has an entry in the mapping
CallHasEntry ==
    /\ call.made
    /\ call.name = "execute_query"
    /\ call.approvals # None
    /\ CallQuery \in DOMAIN call.approvals[1]

\* C1: an execute_query call whose trimmed query text has no entry in the
\* approvals mapping (no mapping, an empty one, or one without that key)
\* returns {requires_approval: true, query: trimmed text, purpose} and hands
\* nothing to run_query.
C1_UnseenQueryRequiresApproval ==
    (call.made /\ call.name = "execute_query" /\ CallQueryIsText /\ ~CallHasEntry)
    => /\ call.effect.result =
             [requires_approval |-> TRUE,
              query |-> CallQuery,
              purpose |-> GetOr(call.input.purpose, "Verify query results")]
       /\ call.effect.sent = << >>

\* C1 witness: the mapping holds the padded text and another query, but not the
\* trimmed text asked for; the data source would have answered with rows.
C1_Witness ==
    /\ call.made
    /\ call.name = "execute_query"
    /\ call.input.query = Some(QSelectPadded)
    /\ call.approvals # None
    /\ DOMAIN call.approvals[1] = {QSelectPadded, QDrop}
    /\ call.rq.kind = "rows"
    /\ "requires_approval" \in DOMAIN call.effect.result
    /\ call.effect.result.query = QSelect

\* A query handed to run_query by get_sample_data: the sample query of the
\* call's table name, which passed the sanitization
IsSampleQueryOfCall(s) ==
    /\ call.name = "get_sample_data"
    /\ call.input.table_name # None
    /\ TableNameAccepted(call.input.table_name[1])
    /\ s = PrefixSelectStarFrom \o call.input.table_name[1] \o SuffixLimit5

\* C3 as stated: every query handed to run_query is the sample query of a
\* sanitized table name, or the approved text stored under exactly the trimmed
\* query text requested, optionally with " LIMIT 100" appended.
C3_SentIsSampleOrApprovedText ==
    call.made =>
        \A i \in DOMAIN call.effect.sent :
            \/ IsSampleQueryOfCall(call.effect.sent[i])
            \/ /\ CallHasEntry
               /\ call.approvals[1][CallQuery] # None
               /\ call.effect.sent[i] \in
                     { call.approvals[1][CallQuery][1],
                       call.approvals[1][CallQuery][1] \o SuffixLimit100 }

\* C3 amended: every query handed to run_query is the sample query of a
\* sanitized table name, or the trimmed approved text stored under exactly the
\* trimmed query text requested, optionally with " LIMIT 100" appended; a
\* decision stored under another key is never applied.
C3_SentIsSampleOrTrimmedApprovedText ==
    call.made =>
        \A i \in DOMAIN call.effect.sent :
            \/ IsSampleQueryOfCall(call.effect.sent[i])
            \/ /\ CallHasEntry
               /\ call.approvals[1][CallQuery] # None
               /\ call.effect.sent[i] \in
                     { Strip(call.approvals[1][CallQuery][1]),
                       Strip(call.approvals[1][CallQuery][1]) \o SuffixLimit100 }

\* C3 witness: two decisions are stored; the one under the trimmed text asked
\* for is executed, trimmed and limited, and the other is not.
C3_Witness ==
    /\ call.made
    /\ call.name = "execute_query"
    /\ call.input.query = Some(QSelectPadded)
    /\ call.approvals = Some((QSelect :> Some(QSelectPadded)) @@ (QDrop :> Some(QDrop)))
    /\ call.effect.sent = << QSelect \o SuffixLimit100 >>

\* C4 as stated: when the mapping resolves the trimmed query text to
\* Approved(finalText), run_query receives finalText, trimmed and with the LIMIT
\* injection applied, and the result is that execution's {data} or {error}.
C4_ApprovedTextIsExecuted ==
    (CallHasEntry /\ call.approvals[1][CallQuery] # None)
    => LET finalText == call.approvals[1][CallQuery][1]
       IN  /\ call.effect.sent = << EnforceLimit(Strip(finalText)) >>
           /\ IF call.rq.kind = "rows"
              THEN /\ DOMAIN call.effect.result = {"data"}
                   /\ call.effect.result.data.rows =
                         SubSeq(Rows(call.rq.n, call.rq.cell), 1,
                                Len(call.effect.result.data.rows))
              ELSE DOMAIN call.effect.result = {"error"}

\* C4 amended: when the mapping resolves the trimmed query text to
\* Approved(finalText) and finalText is not blank, run_query receives exactly
\* finalText, trimmed and with the LIMIT injection applied, and the result is
\* that execution's {data} or {error}; when finalText is blank, nothing is
\* handed to run_query and the result is {error: "query is required"}.
C4_NonBlankApprovedTextIsExecuted ==
    (CallHasEntry /\ call.approvals[1][CallQuery] # None)
    => LET finalText == call.approvals[1][CallQuery][1]
       IN  IF Strip(finalText) = << >>
           THEN /\ call.effect.sent = << >>
                /\ call.effect.result = ErrorResult("query is required")
           ELSE /\ call.effect.sent = << EnforceLimit(Strip(finalText)) >>
                /\ IF call.rq.kind = "rows"
                   THEN /\ DOMAIN call.effect.result = {"data"}
                        /\ call.effect.result.data.rows =
                              SubSeq(Rows(call.rq.n, call.rq.cell), 1,
                                     Len(call.effect.result.data.rows))
                   ELSE DOMAIN call.effect.result = {"error"}

\* C4 witness: the human edited the text; the edited text is what runs, and
\* the data source's rows come back.
C4_Witness ==
    /\ CallHasEntry
    /\ CallQuery = QSelect
    /\ call.approvals[1][QSelect] = Some(QDrop)
    /\ call.effect.sent = << QDrop >>
    /\ call.rq.kind = "rows"
    /\ "data" \in DOMAIN call.effect.result

\* C5: when the mapping resolves the trimmed query text to Rejected, the
\* result carries rejected = true and nothing is handed to run_query.
C5_RejectedQueryIsNotRun ==
    (CallHasEntry /\ call.approvals[1][CallQuery] = None)
    => /\ "rejected" \in DOMAIN call.effect.result
       /\ call.effect.result.rejected = TRUE
       /\ call.effect.sent = << >>

\* C5 witness: the padded request matches the rejected entry after trimming,
\* and the data source would have answered with rows.
C5_Witness ==
    /\ CallHasEntry
    /\ call.input.query = Some(QSelectPadded)
    /\ call.approvals[1][QSelect] = None
    /\ call.rq.kind = "rows"
    /\ "rejected" \in DOMAIN call.effect.result

\* The tools _execute_tool knows (lines 380-384)
KnownTools == {"get_schema", "get_sample_data", "execute_query"}

\* The call handed a query to run_query and the data source failed: an error
\* value, an exception, no data, or a text that is not JSON
CallRunnerFailed == call.effect.sent # << >> /\ call.rq.kind # "rows"

\* The input of the call holds an int where its tool reads a str or a list
CallIllTyped ==
    \/ call.name = "get_schema" /\ call.input.tables = Some(IntValue)
    \/ call.name = "get_sample_data" /\ call.input.table_name = Some(IntValue)
    \/ call.name = "execute_query" /\ call.input.query = Some(IntValue)

\* C11: _execute_tool never raises.  For every tool name, tool input, approvals
\* mapping and behaviour of the data source the call returns a dict; an unknown
\* tool name, an ill-typed input and every failure of run_query (error value
\* or exception) come back as {error: message}, and the message of an unknown
\* tool names it.
C11_ExecuteToolNeverRaises ==
    call.made =>
        /\ ~IsRaised(call.effect.result)
        /\ DOMAIN call.effect.result \in
              { {"error"}, {"data"}, {"tables"}, {"rejected", "message"},
                {"requires_approval", "query", "purpose"} }
        /\ (call.name \notin KnownTools \/ CallIllTyped \/ CallRunnerFailed)
              => DOMAIN call.effect.result = {"error"}
        /\ call.name \notin KnownTools
              => call.effect.result = ErrorResult("Unknown tool: " \o call.name)
        /\ call.name \notin KnownTools \/ CallIllTyped => call.effect.sent = << >>

\* C11 witness: get_sample_data is called with an int for table_name; the
\* AttributeError of line 457 comes back as the error message.
C11_Witness ==
    /\ call.made
    /\ call.name = "get_sample_data"
    /\ call.input.table_name = Some(IntValue)
    /\ call.effect.result = ErrorResult("'int' object has no attribute 'replace'")

\* The pattern ^[A-Za-z0-9_.]+$ : non-empty, and only ASCII letters, digits,
\* underscore and dot
MatchesTableNamePattern(s) ==
    /\ Len(s) > 0
    /\ \A i \in DOMAIN s :
          s[i] \in Range(LowerLetters) \cup Range(UpperLetters) \cup Digits \cup {"_", "."}

\* The call is get_sample_data with a text for table_name
CallSamplesTable ==
    /\ call.made
    /\ call.name = "get_sample_data"
    /\ call.input.table_name # None
    /\ call.input.table_name # Some(IntValue)

\* C13 as stated: get_sample_data accepts a table_name (goes on to query the
\* data source) exactly when the name matches ^[A-Za-z0-9_.]+$, and rejects
\* every other name with an {error} result.
C13_AcceptsExactlyPatternNames ==
    CallSamplesTable =>
        IF MatchesTableNamePattern(call.input.table_name[1])
        THEN call.effect.sent # << >>
        ELSE /\ call.effect.sent = << >>
             /\ DOMAIN call.effect.result = {"error"}

\* The results with which get_sample_data turns a table_name down
SampleRejections ==
    { ErrorResult("table_name is required"), ErrorResult("Invalid table name") }

\* C14: when get_sample_data rejects the table_name, nothing is handed to
\* run_query; when it accepts it, run_query is called exactly once, with exactly
\* the text SELECT * FROM <table_name> LIMIT 5, and the result is what that one
\* execution gives.  The six names of the specification are turned down or
\* accepted as listed.
C14_SampleQueryOnlyWhenAccepted ==
    CallSamplesTable =>
        LET table_name == call.input.table_name[1]
        IN  /\ IF call.effect.result \in SampleRejections
               THEN call.effect.sent = << >>
               ELSE /\ call.effect.sent =
                          << PrefixSelectStarFrom \o table_name \o SuffixLimit5 >>
                    /\ call.effect.result = RunQuery(call.effect.sent[1], call.rq).result
            /\ table_name \in {TInjection, TComment, << >>}
                  => call.effect.result \in SampleRejections
            /\ table_name \in {TOrders, TPublicOrders, TOrderItems}
                  => Len(call.effect.sent) = 1

\* C14 witness: public.orders is accepted and its sample query is the one text
\* handed to run_query, which returned rows.
C14_Witness ==
    /\ CallSamplesTable
    /\ call.input.table_name = Some(TPublicOrders)
    /\ call.rq.kind = "rows"
    /\ call.effect.sent = << PrefixSelectStarFrom \o TPublicOrders \o SuffixLimit5 >>
    /\ "data" \in DOMAIN call.effect.result

(***************************************************************************)
(* Properties of the query-safety policy (specification ToolSpec)          *)
(***************************************************************************)
\* A character of a word: letter, digit or underscore
IsWordChar(c) == IsAlnumChar(c) \/ c = "_"

\* The query holds LIMIT as a token: the word, in any letter case, not as part
\* of a longer word
HasLimitToken(q) ==
    \E i \in 1..(Len(q) - Len(KwLIMIT) + 1) :
        /\ SubSeq(Upper(q), i, i + Len(KwLIMIT) - 1) = KwLIMIT
        /\ i = 1 \/ ~IsWordChar(q[i - 1])
        /\ i + Len(KwLIMIT) > Len(q) \/ ~IsWordChar(q[i + Len(KwLIMIT)])

\* The text the policy is to execute for a trimmed query q
WithLimitInjected(q) ==
    IF StartsWith(Upper(q), KwSELECT) /\ ~HasLimitToken(q)
    THEN q \o SuffixLimit100
    ELSE q

\* The streaming tool path ran a query: execute_query with an approved text
CallExecuted ==
    /\ CallHasEntry
    /\ call.approvals[1][CallQuery] # None
    /\ call.effect.sent # << >>

\* The execute endpoint ran a query
SyncExecuted == sync.made /\ sync.sent # << >>

\* C15 as stated: on both paths a query that begins with SELECT in any letter
\* case and holds no LIMIT token is executed with exactly " LIMIT 100"
\* appended, and a query that holds a LIMIT token or does not begin with SELECT
\* is executed unchanged.
C15_LimitInjectedUnlessLimitToken ==
    /\ CallExecuted =>
          call.effect.sent = << WithLimitInjected(Strip(call.approvals[1][CallQuery][1])) >>
    /\ SyncExecuted =>
          sync.sent = << WithLimitInjected(Strip(sync.query[1])) >>

\* What the policy is to return as data for the rows the data source gave
TruncatedTo(data, rq) ==
    LET rows == Rows(rq.n, rq.cell)
    IN  IF rq.n > RowCap
        THEN /\ DOMAIN data = {"rows", "truncated"}
             /\ data.truncated = TRUE
             /\ Len(data.rows) = RowCap
             /\ \A i \in 1..RowCap : data.rows[i] = rows[i]
        ELSE /\ DOMAIN data = {"rows"}
             /\ data.rows = rows

\* C16: on both paths, and for data returned as a dict or as JSON text, a
\* result of more than 100 rows comes back as exactly its first 100 rows in
\* their order with truncated = true; a result of 100 rows or fewer comes back
\* with its rows unchanged and without a truncated flag.
C16_ResultTruncatedToRowCap ==
    /\ (call.made /\ call.effect.sent # << >> /\ call.rq.kind = "rows")
          => /\ DOMAIN call.effect.result = {"data"}
             /\ TruncatedTo(call.effect.result.data, call.rq)
    /\ (SyncExecuted /\ sync.rq.kind = "rows")
          => /\ sync.response.status = 200
             /\ DOMAIN sync.response.body = {"data"}
             /\ TruncatedTo(sync.response.body.data, sync.rq)

\* C16 witness: the data source returned one row more than the cap, as JSON
\* text, to an approved query; the first 100 rows came back, flagged.
C16_Witness ==
    /\ CallExecuted
    /\ call.rq = JsonRowsOutcome(RowCap + 1)
    /\ Len(call.effect.result.data.rows) = RowCap
    /\ call.effect.result.data.rows[RowCap].id = RowCap
    /\ call.effect.result.data.truncated

\* A request to the execute endpoint that passes the checks on the feature
\* flag, the data source and the access to it, with a text as query
SyncAdmitted ==
    /\ sync.made
    /\ sync.enabled
    /\ sync.data_source_id # None
    /\ sync.access = "ok"
    /\ sync.query # None
    /\ sync.query # Some(IntValue)

\* The endpoint did what the streaming tool path does for the same query and
\* the same behaviour of the query runner
SyncAgreesWithToolPath ==
    LET tool == ToolExecuteQuery(sync.query[1], sync.rq)
    IN  /\ sync.sent = tool.sent
        /\ sync.response = HttpOk(tool.result)

\* C17 as stated: for every non-empty query and every behaviour of the query
\* runner, the execute endpoint hands the same text to run_query and returns
\* the same {data} or {error} as _tool_execute_query followed by _run_query.
C17_EndpointAgreesOnNonEmptyQuery ==
    (SyncAdmitted /\ sync.query[1] # << >>) => SyncAgreesWithToolPath

\* C17 amended: the same, for every query that is not blank (not empty after
\* trimming); for a blank query neither path hands anything to run_query, the
\* endpoint answering 400 "query is required." and the tool path returning
\* {error: "query is required"}.
C17_EndpointAgreesOnNonBlankQuery ==
    SyncAdmitted =>
        IF Strip(sync.query[1]) # << >>
        THEN SyncAgreesWithToolPath
        ELSE /\ sync.sent = << >>
             /\ sync.response = HttpError(400, "query is required.")
             /\ ToolExecuteQuery(sync.query[1], sync.rq) =
                   Effect(ErrorResult("query is required"), << >>)

\* C17 witness: a padded lower-case select is posted and the runner returns
\* one row more than the cap; the endpoint sent the trimmed text with
\* " LIMIT 100" and returned the truncated data, as the tool path does.
C17_Witness ==
    /\ SyncAdmitted
    /\ sync.query = Some(QSelectLower)
    /\ sync.rq = RowsOutcome(RowCap + 1, "plain")
    /\ sync.sent = << QSelectLower \o SuffixLimit100 >>
    /\ sync.response.status = 200
    /\ sync.response.body.data.truncated
    /\ sync.response.body = ToolExecuteQuery(QSelectLower, sync.rq).result

\* C18 as stated: the same table, written in each column representation
\* that can express it, is rendered by format_schema_for_context with the
\* same column entries and by _tool_get_schema with the same {name, type}
\* pairs.
C18_ShapesRenderAlike ==
    (rendering.made /\ rendering.schema # << >>) =>
        \A shape \in Shapes :
            CanDescribe(rendering.cols, shape) =>
                LET schema == SubSeq(rendering.schema, 1, Len(rendering.schema) - 1)
                                  \o << TableIn("t", rendering.cols, shape) >>
                IN  /\ format_schema_for_context(schema) = rendering.context
                    /\ ToolGetSchema(TablesInput(Some(<<"t">>)), schema) = rendering.tool

\* The call is get_schema with a list (or nothing) for tables
CallGetsSchema ==
    /\ call.made
    /\ call.name = "get_schema"
    /\ call.input.tables # Some(IntValue)

\* C19: get_schema with an empty or missing tables input returns one
\* {name, column_count} entry per schema table, in schema order; with a
\* non-empty tables input it returns the {name, columns} entries of exactly
\* the schema tables whose name is in the list, and a requested name that is
\* not in the schema is left out without an error.
C19_GetSchemaSummaryOrDetail ==
    CallGetsSchema =>
        LET requested == GetOr(call.input.tables, << >>)
            tables == call.effect.result.tables
        IN  /\ DOMAIN call.effect.result = {"tables"}
            /\ call.effect.sent = << >>
            /\ IF requested = << >>
               THEN /\ Len(tables) = Len(Schema)
                    /\ \A i \in DOMAIN Schema :
                          /\ DOMAIN tables[i] = {"name", "column_count"}
                          /\ tables[i].name = Schema[i].name
                          /\ tables[i].column_count =
                                (IF Schema[i].columns = None
                                 THEN 0
                                 ELSE Len(Schema[i].columns[1].cols))
               ELSE LET wanted == SelectSeq(Schema, LAMBDA t : \E j \in DOMAIN requested :
                                                                  requested[j] = t.name)
                    IN  /\ Len(tables) = Len(wanted)
                        /\ \A i \in DOMAIN wanted :
                              /\ DOMAIN tables[i] = {"name", "columns"}
                              /\ tables[i].name = wanted[i].name
                              /\ Len(tables[i].columns) =
                                    (IF wanted[i].columns = None
                                     THEN 0
                                     ELSE Len(wanted[i].columns[1].cols))
                              /\ \A k \in DOMAIN tables[i].columns :
                                    DOMAIN tables[i].columns[k] = {"name", "type"}

\* C19 witness: users, missing and orders are requested; orders and users come
\* back in schema order with their columns, and missing is left out.
C19_Witness ==
    /\ CallGetsSchema
    /\ call.input.tables = Some(<<"users", "missing", "orders">>)
    /\ Len(call.effect.result.tables) = 2
    /\ call.effect.result.tables[1].name = "orders"
    /\ call.effect.result.tables[2].name = "users"
    /\ call.effect.result.tables[1].columns[1] = [name |-> "id", type |-> "integer"]

(***************************************************************************)
(* Properties of the streaming loop (specification Spec)                   *)
(***************************************************************************)
IsPrefix(a, b) == Len(a) <= Len(b) /\ SubSeq(b, 1, Len(a)) = a

IdsOf(blocks) == [ i \in DOMAIN blocks |-> blocks[i].id ]

\* The dispatches the loop made while answering request number t
DispatchedIn(t) == SelectSeq(dispatchLog, LAMBDA d : d.turn = t)

\* The tool-dispatch cycles completed: each appended two messages
CyclesCompleted == (Len(anthropic_messages) - nInitial) \div 2

\* The assistant message and the tool-result message appended by cycle t
AssistantOf(t) == anthropic_messages[nInitial + 2 * t - 1]

ResultsOf(t) == anthropic_messages[nInitial + 2 * t]

TerminalEvents == SelectSeq(events, LAMBDA e : e.event \in {"done", "error"})

ToolResultEvents == SelectSeq(events, LAMBDA e : e.event = "tool_result")

\* C2 as stated: in the loop, a dispatch of execute_query whose trimmed text
\* already has a resolved human decision completes the action (returns
\* rejected, or executes the approved text) instead of surfacing
\* requires_approval again.
C2_ResolvedDecisionCompletes ==
    \A i \in DOMAIN dispatchLog :
        LET d == dispatchLog[i]
            q == Strip(GetOr(d.input.query, << >>))
        IN  (d.name = "execute_query" /\ q \in DOMAIN d.decided)
            => /\ "requires_approval" \notin DOMAIN d.result
               /\ IF d.decided[q] = None
                  THEN "rejected" \in DOMAIN d.result
                  ELSE d.sent = << EnforceLimit(Strip(d.decided[q][1])) >>

\* C6: when the finalized turn holds no tool-use block, the loop emits exactly
\* one done event, dispatches no tool, makes no further model request, leaves
\* the conversation alone and stops.
C6_NoToolCallsEndsWithDone ==
    [][ /\ ( /\ pc = "streaming"
             /\ stream = << >>
             /\ ToolCallsOf(final_message) = << >>
             /\ pc' \notin {"streaming", "error"} )
           => /\ pc' = "done"
              /\ events' = Append(events, create_sse_event("done",
                                              [usage |-> [turn |-> requests]]))
              /\ Len(TerminalEvents') = 1
              /\ DispatchedIn(requests)' = << >>
              /\ UNCHANGED <<requests, dispatchLog, runLog, anthropic_messages>>
        /\ pc = "done" => UNCHANGED orchVars
        /\ pc' = "done" => ToolCallsOf(final_message') = << >>
      ]_vars

\* C6 witness: after one tool cycle the model answers with text alone, and
\* the exchange is done.
C6_Witness ==
    /\ pc = "done"
    /\ requests = 2
    /\ final_message # << >>
    /\ ToolCallsOf(final_message) = << >>
    /\ Len(TerminalEvents) = 1

\* C7: the tool calls of a turn are dispatched in the order of the turn's
\* tool-use blocks; the tool_result events follow the dispatches in that
\* order; and the tool-result blocks appended for a completed cycle are in
\* that order too, the i-th block holding the id and the result of the i-th
\* call.
C7_DispatchInBlockOrder ==
    /\ \A t \in 1..CyclesCompleted :
          LET calls == ToolCallsOf(AssistantOf(t).content)
              blocks == ResultsOf(t).content
              done == DispatchedIn(t)
          IN  /\ Len(calls) >= 1
              /\ IdsOf(done) = IdsOf(calls)
              /\ [ i \in DOMAIN blocks |-> blocks[i].tool_use_id ] = IdsOf(calls)
              /\ \A i \in DOMAIN blocks :
                    blocks[i].content = [json |-> JsonEncode(done[i].result)]
    /\ pc \in {"dispatching", "error"} =>
          IsPrefix(IdsOf(DispatchedIn(CyclesCompleted + 1)), IdsOf(ToolCallsOf(final_message)))
    /\ IsPrefix([ i \in DOMAIN ToolResultEvents |-> ToolResultEvents[i].data ],
                [ i \in DOMAIN dispatchLog |->
                    [tool |-> dispatchLog[i].name,
                     result |-> JsonEncode(dispatchLog[i].result)] ])
    /\ Len(ToolResultEvents) >= Len(dispatchLog) - 1

\* C7 witness: a turn with three tool calls has been answered and appended.
C7_Witness ==
    /\ pc = "request"
    /\ CyclesCompleted >= 1
    /\ \E t \in 1..CyclesCompleted :
          /\ Len(ToolCallsOf(AssistantOf(t).content)) = 3
          /\ Len(ResultsOf(t).content) = 3
    /\ Len(ToolResultEvents) >= 3

\* C8: every tool-result block the loop appended carries the id of a tool-use
\* block of an assistant message that stands earlier in the conversation.
C8_ToolResultRefersToEarlierToolUse ==
    \A j \in (nInitial + 1)..Len(anthropic_messages) :
        anthropic_messages[j].role = "user" =>
            \A k \in DOMAIN anthropic_messages[j].content :
                LET block == anthropic_messages[j].content[k]
                IN  block.type = "tool_result" =>
                        \E i \in 1..(j - 1) :
                            /\ anthropic_messages[i].role = "assistant"
                            /\ \E b \in DOMAIN anthropic_messages[i].content :
                                  /\ anthropic_messages[i].content[b].type = "tool_use"
                                  /\ anthropic_messages[i].content[b].id = block.tool_use_id

\* C8 witness: two cycles were appended after the client's three messages.
C8_Witness ==
    /\ nInitial = 3
    /\ Len(anthropic_messages) = nInitial + 4
    /\ Len(anthropic_messages[Len(anthropic_messages)].content) >= 2

\* C9: every step keeps the messages there are as a prefix; the list grows
\* only when a tool-dispatch cycle completes, and then by exactly two
\* messages: the assistant's turn with its content blocks, then a user message
\* with the tool results; reaching done or error adds nothing.
C9_ConversationAppendOnly ==
    [][ /\ IsPrefix(anthropic_messages, anthropic_messages')
        /\ (pc # "start" /\ anthropic_messages' # anthropic_messages)
              => /\ pc = "dispatching" /\ pc' = "request"
                 /\ Len(tool_results) = Len(ToolCallsOf(final_message))
                 /\ anthropic_messages' = anthropic_messages \o
                        << [role |-> "assistant", content |-> final_message],
                           [role |-> "user", content |-> tool_results] >>
        /\ (pc = "dispatching" /\ pc' = "request")
              => Len(anthropic_messages') = Len(anthropic_messages) + 2
        /\ (pc # "start" /\ pc' \in {"done", "error"})
              => anthropic_messages' = anthropic_messages
      ]_vars

\* C9 witness: one cycle was appended, then a turn without tool calls ended
\* the exchange and added nothing.
C9_Witness ==
    /\ pc = "done"
    /\ nInitial = 3
    /\ Len(anthropic_messages) = nInitial + 2
    /\ requests = 2

\* C10: the event stream holds at most one terminal event (done or error),
\* and it is the last event; an exception makes the loop emit exactly one
\* error event; after a terminal event no event is emitted, no model request
\* is made and no tool is dispatched.
C10_SingleTerminalEvent ==
    [][ /\ Len(TerminalEvents') <= 1
        /\ (pc' \in {"done", "error"})
              => /\ Len(TerminalEvents') = 1
                 /\ events'[Len(events')].event = (IF pc' = "done" THEN "done" ELSE "error")
        /\ (pc' \notin {"done", "error"}) => TerminalEvents' = << >>
        /\ (pc # "error" /\ pc' = "error")
              => /\ Len(events') = Len(events) + 1
                 /\ IsPrefix(events, events')
        /\ (pc \in {"done", "error"})
              => UNCHANGED <<pc, events, requests, dispatchLog, runLog, anthropic_messages>>
      ]_vars

\* C10 witness: the second model request failed after a tool cycle; the error
\* event is the only terminal event and the last one.
C10_Witness ==
    /\ pc = "error"
    /\ requests = 2
    /\ stream = << >>
    /\ Len(dispatchLog) >= 1
    /\ Len(TerminalEvents) = 1
    /\ events[Len(events)].event = "error"

\* C12: a failing tool call does not abort the loop.  The step that dispatches
\* a call whose result is {error: message} emits that result as the call's
\* tool_result event, collects it as the call's tool-result block, emits no
\* terminal event and stays in the loop over the turn's tool calls; the cycle
\* is left for the next model request only when every tool call of the turn
\* has been dispatched, and the two messages appended then carry the error
\* blocks.
C12_FailingToolCallDoesNotAbort ==
    [][ /\ ( /\ Len(dispatchLog') = Len(dispatchLog) + 1
             /\ DOMAIN dispatchLog'[Len(dispatchLog')].result = {"error"} )
           => LET d == dispatchLog'[Len(dispatchLog')]
              IN  /\ events' = Append(events, create_sse_event("tool_result",
                                          [tool |-> d.name, result |-> d.result]))
                  /\ tool_results' = Append(tool_results,
                                            ToolResultBlock(d.id, [json |-> d.result]))
                  /\ pc' = "dispatching"
                  /\ TerminalEvents' = << >>
                  /\ UNCHANGED <<tool_calls, anthropic_messages, requests>>
        /\ (pc = "dispatching" /\ pc' \notin {"dispatching", "error"})
           => /\ pc' = "request"
              /\ IdsOf(DispatchedIn(requests)) = IdsOf(tool_calls)
              /\ CyclesCompleted' = CyclesCompleted + 1
              /\ \A i \in DOMAIN DispatchedIn(requests) :
                    LET d == DispatchedIn(requests)[i]
                    IN  DOMAIN d.result = {"error"}
                        => anthropic_messages'[Len(anthropic_messages')].content[i] =
                              ToolResultBlock(d.id, [json |-> d.result])
        /\ (pc = "request" /\ requests < MaxTurns) => ENABLED ModelRequest
      ]_vars

\* C12 witness: the first of three tool calls of turn 1 failed (an exception
\* inside the tool), the other two were dispatched, the cycle was appended and
\* the second model request has been made; no terminal event was emitted.
C12_Witness ==
    /\ requests = 2
    /\ pc = "streaming"
    /\ CyclesCompleted = 1
    /\ Len(DispatchedIn(1)) = 3
    /\ DispatchedIn(1)[1].result = ErrorResult("'int' object has no attribute 'replace'")
    /\ ResultsOf(1).content[1].content = [json |-> DispatchedIn(1)[1].result]
    /\ TerminalEvents = << >>

\* A check of post fails for the request: the feature is disabled, no API key
\* is configured, data_source_id or messages is missing, or there is no
\* cached schema
PreconditionFails(req) ==
    \/ ~req.enabled
    \/ req.api_key = ""
    \/ req.data_source_id = None
    \/ req.messages \in {None, Some(<< >>)}
    \/ req.schema = << >>

\* C20: when a precondition of the chat request fails, the request ends with
\* an error response (403 disabled or access denied, 503 no API key, 400
\* missing field or schema, 404 no such data source) and the exchange never
\* starts: no model request is made, no tool is dispatched, nothing is sent to
\* the data source and no SSE event is emitted.
C20_FailedPreconditionStartsNothing ==
    (chat.made /\ PreconditionFails(chat.req))
    => /\ pc = "aborted"
       /\ chat.response.status \in {400, 403, 404, 503}
       /\ ~chat.req.enabled => chat.response.status = 403
       /\ (chat.req.enabled /\ chat.req.api_key = "") => chat.response.status = 503
       /\ (chat.req.enabled /\ chat.req.api_key # "" /\ chat.req.access = "ok")
             => chat.response.status = 400
       /\ requests = 0
       /\ dispatchLog = << >>
       /\ runLog = << >>
       /\ events = << >>
       /\ anthropic_messages = << >>
       /\ ~ENABLED Next

\* C20 witness: everything is in place but the cached schema; the request was
\* aborted with 400 and nothing was started.
C20_Witness ==
    /\ chat.made
    /\ chat.req.enabled
    /\ chat.req.api_key # ""
    /\ chat.req.data_source_id # None
    /\ chat.req.messages \notin {None, Some(<< >>)}
    /\ chat.req.access = "ok"
    /\ chat.req.schema = << >>
    /\ chat.response =
          HttpError(400, "Schema is not available. Please refresh the schema first.")
    /\ pc = "aborted"
    /\ events = << >>

(***************************************************************************)
(* Termination of the exchange                                             *)
(***************************************************************************)

\* The turn being streamed carries at least one tool call.
TurnHasToolCalls == ToolCallsOf(final_message) # << >>

\* The generator has returned after its terminal event.
Stopped ==
    /\ pc \in {"done", "error"}
    /\ Len(TerminalEvents) = 1
    /\ events[Len(events)].event \in {"done", "error"}

\* Every request the model explores was made, each after a complete tool cycle.
AtCap == pc = "request" /\ requests = MaxTurns /\ CyclesCompleted = MaxTurns

\* C21: with the model's stream delivering and every tool call returning, the
\* started generator either emits one terminal event (`done` or `error`) and
\* stops for good, or keeps making model requests as far as the model
\* explores them (MaxTurns).  It stops with `done` only on a turn without tool
\* calls, an error is always terminal, and it is back at the top of the loop
\* only after turns that all carried tool calls.
C21_TerminatesOrKeepsRequesting ==
    /\ (pc = "start") ~> (Stopped \/ AtCap)
    /\ [][(pc \in {"done", "error"}) => (pc' = pc /\ events' = events)]_vars
    /\ [](pc = "error" => Stopped)
    /\ [](pc = "done" => (Stopped /\ ~TurnHasToolCalls))
    /\ []((pc = "request" /\ requests > 0) => (TurnHasToolCalls /\ CyclesCompleted = requests))

\* A tool cycle was followed by a further request whose turn ended the exchange.
C21_Witness ==
    /\ pc = "done"
    /\ requests = 2
    /\ CyclesCompleted = 1
    /\ Len(events) >= 4

(***************************************************************************)
(* Cancellation                                                            *)
(***************************************************************************)

\* C22 as stated: once the client has disconnected, the generator reads no
\* further increment of the model's stream, makes no further model request
\* and dispatches no further tool; the only thing that still happens to the
\* model's stream is its release.
C22_DisconnectStopsTheExchange ==
    [][ connection # "open" =>
          /\ (stream' = stream \/ pc' = "closed")
          /\ requests' = requests
          /\ dispatchLog' = dispatchLog
          /\ runLog' = runLog ]_vars

(***************************************************************************)
(* Bound on the agentic loop                                               *)
(***************************************************************************)

\* C23 as stated, for a maximum of MaxTurns round-trips: when every one of
\* MaxTurns model turns carried tool calls and all were answered, the
\* orchestrator has stopped with an `error` event instead of going round again.
C23_LoopStopsAtIterationBound ==
    (requests = MaxTurns /\ CyclesCompleted = MaxTurns) =>
        /\ pc = "error"
        /\ events # << >>
        /\ events[Len(events)].event = "error"

(***************************************************************************)
(* The schema text of the system prompt                                    *)
(***************************************************************************)

\* The line the text must have for a table: its first min(n, 10) column
\* entries in order, and the suffix with n - 10 exactly when n > 10
ExpectedTableLine(table) ==
    LET entries == FormatColList(table.columns)
        n == Len(entries)
        shown == [ i \in 1..(IF n < 10 THEN n ELSE 10) |-> entries[i] ]
        line == "- " \o table.name \o ": " \o Join(shown, ", ")
    IN  IF n > 10 THEN line \o " ... and " \o ToString(n - 10) \o " more columns"
        ELSE line

\* C24: format_schema_for_context returns `No schema available.` for an empty
\* schema and otherwise one line per table, in schema order; the line of a
\* table with n columns shows its first min(n, 10) columns in order and ends
\* with `... and N more columns`, N = n - 10, exactly when n > 10.
C24_SchemaTextLinePerTable ==
    rendering.made =>
        IF rendering.schema = << >>
        THEN rendering.context = "No schema available."
        ELSE rendering.context =
                 Join([ i \in DOMAIN rendering.schema |-> ExpectedTableLine(rendering.schema[i]) ],
                      "\n")

\* Five tables were rendered, the last with one column more than is shown.
C24_Witness ==
    /\ rendering.made
    /\ Len(rendering.schema) = 5
    /\ Len(rendering.cols) = 11
    /\ rendering.context =
          "- orders: id (integer), note (?)\n- users: id, email\n- events: id (integer), at (?)\n"
          \o "- empty: \n- t: id, email, note, c4, c5, c6, c7, c8, c9, c10 ... and 1 more columns"

(***************************************************************************)
(* Order of the events of a turn                                           *)
(***************************************************************************)

\* What the client must be sent for one increment of the model's stream: a
\* text delta as `text_delta`, the start of a tool call as `tool_start`
Forwarded(e) ==
    IF e.type = "content_block_start" /\ e.block.type = "tool_use"
    THEN << [event |-> "tool_start", data |-> [tool |-> e.block.name, id |-> e.block.id]] >>
    ELSE IF e.type = "content_block_delta" /\ e.text # None
    THEN << [event |-> "text_delta", data |-> [text |-> e.text[1]]] >>
    ELSE << >>

ToolStartEvents == SelectSeq(events, LAMBDA e : e.event = "tool_start")

\* The last n elements of a sequence
LastOf(seq, n) == SubSeq(seq, Len(seq) - n + 1, Len(seq))

\* C25: events are only ever appended.  Every increment read from the
\* model's stream is forwarded at once, in the order streamed, and while the
\* turn is streamed none of its tools has been dispatched; a `tool_result` is
\* emitted only when the whole stream of the turn has been read, after the
\* `tool_start` events of all its tool calls, in their order; and the next
\* model request is made only when every tool call of the turn has been
\* answered with its `tool_result` event.
C25_TurnEventsBeforeToolResults ==
    [][ LET new == SubSeq(events', Len(events) + 1, Len(events'))
        IN  /\ IsPrefix(events, events')
            /\ (pc = "streaming" /\ stream # << >> /\ stream' = Tail(stream)) =>
                    /\ new = Forwarded(Head(stream))
                    /\ DispatchedIn(requests) = << >>
            /\ \A i \in DOMAIN new :
                  /\ new[i].event \in {"text_delta", "tool_start"} =>
                        (pc = "streaming" /\ stream # << >> /\ stream' = Tail(stream))
                  /\ new[i].event = "tool_result" =>
                        /\ pc = "dispatching"
                        /\ stream = << >>
                        /\ requests' = requests
                        /\ Len(ToolStartEvents) >= Len(tool_calls)
                        /\ LET starts == LastOf(ToolStartEvents, Len(tool_calls))
                           IN  [ k \in DOMAIN starts |-> starts[k].data.id ] = IdsOf(tool_calls)
            /\ requests' # requests =>
                  /\ pc = "request"
                  /\ \A i \in DOMAIN new : new[i].event = "error"
                  /\ Len(ToolResultEvents) = Len(dispatchLog)
                  /\ requests > 0 =>
                        Len(DispatchedIn(requests)) = Len(ToolCallsOf(final_message)) ]_vars

\* A turn of one text delta and two tool calls was answered, and the next
\* request was made after its two results.
C25_Witness ==
    /\ requests = 2
    /\ pc = "streaming"
    /\ Len(events) = 5
    /\ [ i \in 1..5 |-> events[i].event ] =
          <<"text_delta", "tool_start", "tool_start", "tool_result", "tool_result">>

(***************************************************************************)
(* Properties of the settings handlers                                     *)
(***************************************************************************)

\* The value is a string that is empty or holds only whitespace
BlankText(x) == x.kind = "str" /\ \A i \in DOMAIN x.v : x.v[i] \in WhitespaceChars

\* The step is a request to OrganizationSettings.post that was answered
PostAnswered == org' # org /\ org'.made = "post" /\ org'.response.status = 200

\* C26: a post whose ai_api_key is empty or only whitespace leaves the stored
\* key as it was and still stores every other setting of the request; a post
\* whose ai_api_key is a non-blank text stores that text as the key.
C26_BlankKeyKeepsStoredKey ==
    [][ (PostAnswered /\ "ai_api_key" \in DOMAIN org'.request) =>
          LET new_values == org'.request
              key == new_values["ai_api_key"]
          IN  /\ BlankText(key) =>
                    /\ org'.stored["ai_api_key"] = org.stored["ai_api_key"]
                    /\ \A k \in (DOMAIN new_values \cap SettingNames) \ {"ai_api_key"} :
                          org'.stored[k] = new_values[k]
                    /\ "auth_google_apps_domains" \in DOMAIN new_values =>
                          org'.domains = new_values["auth_google_apps_domains"]
              /\ (key.kind = "str" /\ ~BlankText(key)) =>
                    org'.stored["ai_api_key"] = key ]_vars

\* A post with a whitespace key and a new date format was answered: the key
\* stored before is still there, the date format is the new one.
C26_Witness ==
    /\ org.made = "post"
    /\ org.response.status = 200
    /\ DOMAIN org.request = {"ai_api_key", "date_format"}
    /\ org.request["ai_api_key"] = JsonStr(<<" ", " ">>)
    /\ org.stored["ai_api_key"] = JsonStr(Key20)
    /\ org.stored["date_format"] = JsonStr(<<"Y", "Y">>)
    /\ Len(org.audit) = 1

\* The key the organization has stored, if it has one
StoredKey == org.stored["ai_api_key"]

HoldsStoredKey(values) == \E k \in DOMAIN values : values[k] = StoredKey

\* C27 as stated: after any sequence of get and post requests, neither the
\* settings returned nor any audit event recorded by post holds the stored
\* key in plain text.
C27_PlaintextKeyNeverExposed ==
    (StoredKey.kind = "str" /\ ~BlankText(StoredKey)) =>
        /\ org.response.status = 200 => ~HoldsStoredKey(org.response.settings)
        /\ \A i \in DOMAIN org.audit :
              /\ ~HoldsStoredKey(org.audit[i].new_values)
              /\ ~HoldsStoredKey(org.audit[i].previous_values)

====
